---- MODULE Spec2Model ----
(***************************************************************************)
(* RAG pipeline of the PDF knowledge base: the ingestion flow processPDF   *)
(* (load -> chunk -> embed (diagnostic) -> store), the lazily connected    *)
(* vector store singleton, and the query flow (connect -> embed query ->   *)
(* search -> generate), as driven by the HTTP server (concurrent requests  *)
(* in one node process) and by the step5-query command line script (its    *)
(* own process, the same external collection).                            *)
(***************************************************************************)
EXTENDS Integers, Sequences, FiniteSets, TLC

\* ---- bounds -------------------------------------------------------------
MaxChunks == 2          \* chunks the splitter returns for one PDF: 0..MaxChunks
MaxTopK == 2            \* topK of a query: 1..MaxTopK
MaxTextLen == 4         \* characters of a document handed to the splitter
MaxChunkSize == 3       \* chunkSize of a splitter run on such a document

\* the concurrent requests the server process handles
Runs == {"r1", "r2"}    \* POST /upload-pdf -> processPDF
Queries == {"q1"}       \* POST /query -> queryKnowledgeBase

\* ---- program constants --------------------------------------------------
PreviewLen == 500       \* doc.pageContent.substring(0, 500)
DefaultChunkSize == 500     \* processPDF: chunkSize = 500
DefaultChunkOverlap == 75   \* processPDF: chunkOverlap = 75
DefaultTopK == 3            \* POST /query: topK = 3

\* ---- values -------------------------------------------------------------
NoError == "none"
NoHandle == 0           \* vectorStoreInstance = null
Null == "null"
ModelAnswer == "answer" \* response.text of the generative model
UserQuery == "question"
StageOrder == <<"load", "chunk", "embed", "store">>
QueryStageOrder == <<"connect", "embedQuery", "search", "generate">>

\* a model name is its path: 'models/text-embedding-004' names the model
\* 'text-embedding-004' of the embedding service
DefaultEmbeddingModel == <<"text-embedding-004">>
DefaultChatModel == <<"gemini-1.5-flash">>
StoreEmbeddingModel == <<"models", "text-embedding-004">>
OtherEmbeddingModel == <<"embedding-001">>
OtherChatModel == <<"gemini-1.5-pro">>
ModelId(name) == name[Len(name)]

\* process.env of the node process
ProcessEnv ==
  [GOOGLE_API_KEY |-> "envGoogleKey", QDRANT_URL |-> "envQdrantUrl",
   QDRANT_API_KEY |-> "envQdrantKey"]

\* server.ts: the processingConfig every request of the server is run with
ServerConfig ==
  [apiKey |-> ProcessEnv.GOOGLE_API_KEY, chunkSize |-> 500, chunkOverlap |-> 75,
   embeddingModel |-> DefaultEmbeddingModel, chatModel |-> DefaultChatModel]

\* configs of a caller of the orchestrator's exports (PDFProcessingConfig: only
\* apiKey is required): other credentials and embedding models ...
CredentialConfigs ==
  {[apiKey |-> k] : k \in {ProcessEnv.GOOGLE_API_KEY, "callerKey"}}
  \cup {[apiKey |-> k, embeddingModel |-> OtherEmbeddingModel] :
          k \in {ProcessEnv.GOOGLE_API_KEY, "callerKey"}}

\* ... and other chunk sizes and overlaps, valid and not
ChunkingConfigs ==
  {[apiKey |-> "callerKey", chunkSize |-> 1000, chunkOverlap |-> 0],
   [apiKey |-> "callerKey", chunkSize |-> 500, chunkOverlap |-> 500],
   [apiKey |-> "callerKey", chunkOverlap |-> 600],
   [apiKey |-> "callerKey", chunkSize |-> 0, chunkOverlap |-> 0],
   [apiKey |-> "callerKey", chunkSize |-> 0, chunkOverlap |-> -1]}

\* ... and another chat model
ChatConfigs == {[apiKey |-> "callerKey", chatModel |-> OtherChatModel]}

CallerConfigs == CredentialConfigs \cup ChunkingConfigs \cup ChatConfigs

\* the arguments of a queryKnowledgeBase call: topK is optional
QueryArgs(k) == [userQuery |-> UserQuery, topK |-> k]

QueryArgsNoTopK == [userQuery |-> UserQuery]

NoQueryArgs == [userQuery |-> Null]

NoConfig == [apiKey |-> Null]

VARIABLES
  vectorStoreInstance,  \* steps/vectorStore.ts: module-level singleton of the server process
  connectCalls,         \* number of connectToVectorDB() invocations in the server process
  firstHandle,          \* the store the first completed initVectorStore call returned
  collection,           \* the external Qdrant collection: sequence of stored records
  run,                  \* run[r]: one processPDF request
  qry,                  \* qry[q]: one queryKnowledgeBase request
  cli,                  \* the step5-query script (a node process of its own)
  spl,                  \* one chunkDocuments call, its texts character by character
  http,                 \* http[id]: the server's handling of one HTTP request
  clr,                  \* one clearVectorStore call in the server process
  scr                   \* a command line pipeline script (a node process of its own)

vars == <<vectorStoreInstance, connectCalls, firstHandle, collection, run, qry, cli, spl,
          http, clr, scr>>

\* ---- pure helpers -------------------------------------------------------
Min(a, b) == IF a < b THEN a ELSE b

\* a pipeline that converts the stage's error into one of its own
PipelineWraps(e) == "PipelineError"

\* orchestrator.ts catch (error) { ...; throw error; }
PipelineRethrow(e) == e

\* steps/embedding.ts createEmbedding catch: throw error
EmbeddingRethrow(e) == e

\* steps/embedding.ts createEmbeddings catch: throw error
EmbeddingsRethrow(e) == e

\* steps/vectorStore.ts storeEmbeddings catch: throw error
StoreRethrow(e) == e

\* pdfLoader loadPDF catch: throw error
LoadRethrow(e) == e

\* chunking chunkDocuments catch: throw error
ChunkRethrow(e) == e

\* destructuring with a default: `field = dflt` takes dflt when the caller's
\* object has no such field
FieldOr(config, field, dflt) ==
  IF field \in DOMAIN config THEN config[field] ELSE dflt

\* processPDF: const {apiKey, chunkSize = 500, chunkOverlap = 75,
\*                    embeddingModel = 'text-embedding-004'} = config
ProcessPDFOptions(config) ==
  [apiKey |-> config.apiKey,
   chunkSize |-> FieldOr(config, "chunkSize", DefaultChunkSize),
   chunkOverlap |-> FieldOr(config, "chunkOverlap", DefaultChunkOverlap),
   embeddingModel |-> FieldOr(config, "embeddingModel", DefaultEmbeddingModel)]

\* a query that is always answered by the default chat model
QueryOptionsDefaultChat(config) ==
  [apiKey |-> config.apiKey,
   embeddingModel |-> FieldOr(config, "embeddingModel", DefaultEmbeddingModel),
   chatModel |-> DefaultChatModel]

\* queryKnowledgeBase: const {apiKey, embeddingModel = 'text-embedding-004',
\*                            chatModel = 'gemini-1.5-flash'} = config
QueryOptions(config) ==
  [apiKey |-> config.apiKey,
   embeddingModel |-> FieldOr(config, "embeddingModel", DefaultEmbeddingModel),
   chatModel |-> FieldOr(config, "chatModel", DefaultChatModel)]

\* new RecursiveCharacterTextSplitter({chunkSize, chunkOverlap}): the only check
\* on the way is the constructor's, "Cannot have chunkOverlap >= chunkSize"
SplitterRejects(chunkSize, chunkOverlap) == chunkOverlap >= chunkSize

\* ---- chunkDocuments, character by character -----------------------------
\* A text is the sequence of its characters. RecursiveCharacterTextSplitter is
\* run with its defaults but for chunkSize and chunkOverlap: the separators
\* "\n\n", "\n", " ", "", kept at the head of the piece that follows them,
\* and the length of a text counted in characters.
Alphabet == {"a", "b", " ", "\n"}

Separators == << <<"\n", "\n">>, <<"\n">>, <<" ">>, <<>> >>

IsWhitespace(c) == c \in {" ", "\n"}

\* String.prototype.trim
RECURSIVE TrimStart(_)
TrimStart(text) ==
  IF text # <<>> /\ IsWhitespace(Head(text)) THEN TrimStart(Tail(text)) ELSE text

RECURSIVE TrimEnd(_)
TrimEnd(text) ==
  IF text # <<>> /\ IsWhitespace(text[Len(text)])
  THEN TrimEnd(SubSeq(text, 1, Len(text) - 1))
  ELSE text

Trim(text) == TrimEnd(TrimStart(text))

\* Array.prototype.join
RECURSIVE Join(_, _)
Join(docs, separator) ==
  IF docs = <<>> THEN <<>>
  ELSE IF Len(docs) = 1 THEN docs[1]
  ELSE docs[1] \o separator \o Join(Tail(docs), separator)

\* joinDocs: docs.join(separator).trim(); the empty text stands for its null
JoinDocs(docs, separator) == Trim(Join(docs, separator))

\* the separator occurs in the text at position i
OccursAt(text, separator, i) ==
  /\ i + Len(separator) - 1 <= Len(text)
  /\ SubSeq(text, i, i + Len(separator) - 1) = separator

\* text.includes(separator)
Includes(text, separator) == \E i \in 1..Len(text) : OccursAt(text, separator, i)

\* text.split(/(?=separator)/): the text is cut in front of every occurrence of
\* the separator past its first character
RECURSIVE SplitBefore(_, _, _, _)
SplitBefore(text, separator, start, i) ==
  IF i > Len(text)
  THEN (IF start > Len(text) THEN <<>> ELSE <<SubSeq(text, start, Len(text))>>)
  ELSE IF OccursAt(text, separator, i)
       THEN <<SubSeq(text, start, i - 1)>> \o SplitBefore(text, separator, i, i + 1)
       ELSE SplitBefore(text, separator, start, i + 1)

\* splitOnSeparator with keepSeparator: the pieces, none of them empty;
\* text.split("") for the empty separator
SplitOnSeparator(text, separator) ==
  IF separator = <<>>
  THEN [i \in 1..Len(text) |-> <<text[i]>>]
  ELSE SplitBefore(text, separator, 1, 2)

\* a merge that lets a chunk grow one character past the chunk size
ExceedsChunkSizeByTwo(total, len, joined, chunkSize) == total + len + joined > chunkSize + 1

\* mergeSplits: total + _len + currentDoc.length * separator.length > chunkSize
ExceedsChunkSize(total, len, joined, chunkSize) == total + len + joined > chunkSize

\* mergeSplits, the inner while: pieces are dropped from the front of the
\* current chunk until what is left is no longer than the overlap and the next
\* piece fits
RECURSIVE PopFront(_, _, _, _, _, _)
PopFront(currentDoc, total, len, sepLen, chunkSize, chunkOverlap) ==
  IF \/ total > chunkOverlap
     \/ (ExceedsChunkSize(total, len, Len(currentDoc) * sepLen, chunkSize) /\ total > 0)
  THEN PopFront(Tail(currentDoc), total - Len(Head(currentDoc)), len, sepLen,
                chunkSize, chunkOverlap)
  ELSE [currentDoc |-> currentDoc, total |-> total]

\* docs.push(doc) unless doc is null
PushDoc(docs, doc) == IF doc = <<>> THEN docs ELSE Append(docs, doc)

\* mergeSplits, the loop over the pieces
RECURSIVE MergeLoop(_, _, _, _, _, _, _)
MergeLoop(splits, separator, chunkSize, chunkOverlap, docs, currentDoc, total) ==
  IF splits = <<>>
  THEN PushDoc(docs, JoinDocs(currentDoc, separator))
  ELSE LET d == Head(splits)
           len == Len(d)
       IN IF /\ ExceedsChunkSize(total, len, Len(currentDoc) * Len(separator), chunkSize)
             /\ Len(currentDoc) > 0
          THEN LET kept == PopFront(currentDoc, total, len, Len(separator),
                                    chunkSize, chunkOverlap)
               IN MergeLoop(Tail(splits), separator, chunkSize, chunkOverlap,
                            PushDoc(docs, JoinDocs(currentDoc, separator)),
                            Append(kept.currentDoc, d), kept.total + len)
          ELSE MergeLoop(Tail(splits), separator, chunkSize, chunkOverlap,
                         docs, Append(currentDoc, d), total + len)

MergeSplits(splits, separator, chunkSize, chunkOverlap) ==
  MergeLoop(splits, separator, chunkSize, chunkOverlap, <<>>, <<>>, 0)

\* _splitText: the first separator of the list that is "" or occurs in the
\* text (0: none does, the last of the list is used)
SeparatorIndex(text, separators) ==
  IF \E i \in 1..Len(separators) : separators[i] = <<>> \/ Includes(text, separators[i])
  THEN CHOOSE i \in 1..Len(separators) :
         /\ separators[i] = <<>> \/ Includes(text, separators[i])
         /\ \A j \in 1..(i - 1) : separators[j] # <<>> /\ ~Includes(text, separators[j])
  ELSE 0

\* _splitText: the text is cut at the separator; pieces shorter than the chunk
\* size are collected and merged, a piece that is not is split with the
\* separators that remain, or kept whole when none remains
RECURSIVE SplitText(_, _, _, _)
RECURSIVE SplitLoop(_, _, _, _, _, _, _)
SplitLoop(splits, hasNew, newSeparators, chunkSize, chunkOverlap, finalChunks, goodSplits) ==
  LET merged == IF goodSplits # <<>>
                THEN finalChunks \o MergeSplits(goodSplits, <<>>, chunkSize, chunkOverlap)
                ELSE finalChunks
  IN IF splits = <<>> THEN merged
     ELSE LET piece == Head(splits)
          IN IF Len(piece) < chunkSize
             THEN SplitLoop(Tail(splits), hasNew, newSeparators, chunkSize, chunkOverlap,
                            finalChunks, Append(goodSplits, piece))
             ELSE SplitLoop(Tail(splits), hasNew, newSeparators, chunkSize, chunkOverlap,
                            merged \o (IF hasNew
                                       THEN SplitText(piece, newSeparators, chunkSize,
                                                      chunkOverlap)
                                       ELSE <<piece>>),
                            <<>>)

SplitText(text, separators, chunkSize, chunkOverlap) ==
  LET idx == SeparatorIndex(text, separators)
      separator == IF idx = 0 THEN separators[Len(separators)] ELSE separators[idx]
      hasNew == idx # 0 /\ separator # <<>>
      newSeparators == SubSeq(separators, idx + 1, Len(separators))
  IN SplitLoop(SplitOnSeparator(text, separator), hasNew, newSeparators,
               chunkSize, chunkOverlap, <<>>, <<>>)

\* createDocuments: the chunks of one page, each with the page's metadata
PageChunks(page, chunkSize, chunkOverlap) ==
  LET texts == SplitText(page.pageContent, Separators, chunkSize, chunkOverlap)
  IN [k \in 1..Len(texts) |-> [pageContent |-> texts[k], metadata |-> page.metadata]]

\* splitDocuments: the chunks of the pages, page after page
RECURSIVE SplitDocuments(_, _, _)
SplitDocuments(documents, chunkSize, chunkOverlap) ==
  IF documents = <<>> THEN <<>>
  ELSE PageChunks(Head(documents), chunkSize, chunkOverlap)
       \o SplitDocuments(Tail(documents), chunkSize, chunkOverlap)

\* a chunker that collects the chunks of every call in one list it keeps
ChunkDocumentsIntoSharedList(documents, chunkSize, chunkOverlap) ==
  spl.chunks \o SplitDocuments(documents, chunkSize, chunkOverlap)

\* chunkDocuments(documents, chunkSize, chunkOverlap) on a splitter that was
\* constructed
ChunkDocuments(documents, chunkSize, chunkOverlap) ==
  SplitDocuments(documents, chunkSize, chunkOverlap)

\* the texts of at most n characters
TextsUpTo(n) == UNION {[1..k -> Alphabet] : k \in 0..n}

\* what loadPDF hands over: one document per page of the PDF, in page order
PageDocument(text, number) ==
  [pageContent |-> text, metadata |-> [source |-> "pdf", page |-> number]]

\* the PDFs of one page and of two pages with at most n characters
LoadedDocuments(n) ==
  {<<PageDocument(t, 1)>> : t \in TextsUpTo(n)}
  \cup UNION {{<<PageDocument(SubSeq(t, 1, p), 1),
                  PageDocument(SubSeq(t, p + 1, Len(t)), 2)>> : p \in 0..Len(t)} :
               t \in TextsUpTo(n)}

\* A text is a prefix of a base text: its identity and its length in characters.
\* The k-th chunk of a PDF has PreviewLen - 1 + k characters, so that chunks
\* as long as the preview length and longer occur, unless the chunk size is
\* smaller: no chunk is longer than the chunk size, and with a chunk size
\* below 1 the splitter is down to single characters.
ChunkLen(k, chunkSize) ==
  IF chunkSize < 1 THEN 1 ELSE Min(PreviewLen - 1 + k, chunkSize)

TextOf(file, k, chunkSize) == [id |-> <<file, k>>, len |-> ChunkLen(k, chunkSize)]

\* String.prototype.substring(0, n)
Substring(text, n) == [id |-> text.id, len |-> Min(text.len, n)]

\* the chunks the splitter returns for a PDF file, in document order, each
\* with the loader's metadata (source = the file)
ChunkOf(file, k, chunkSize) ==
  [pageContent |-> TextOf(file, k, chunkSize), metadata |-> [source |-> file]]

ChunksOf(file, n, chunkSize) == [k \in 1..n |-> ChunkOf(file, k, chunkSize)]

\* the embedding service: a vector determined by the text
EmbedVector(text) == <<"vec", text.id, text.len>>

\* embeddings.push({chunk, embedding})
PushEmbedding(embeddings, chunk, embedding) ==
  Append(embeddings, [chunk |-> chunk, embedding |-> embedding])

\* a store step that hands the records over in reverse order
DocsToStoreReversed(chunks) ==
  [k \in 1..Len(chunks) |->
     [pageContent |-> chunks[Len(chunks) + 1 - k].pageContent,
      metadata |-> chunks[Len(chunks) + 1 - k].metadata]]

\* {}: a metadata map without entries
EmptyMetadata == [key \in {} |-> Null]

\* chunks.map(chunk => ({pageContent: chunk.pageContent, metadata: chunk.metadata || {}}))
DocsToStore(chunks) ==
  [k \in 1..Len(chunks) |->
     [pageContent |-> chunks[k].pageContent,
      metadata |-> FieldOr(chunks[k], "metadata", EmptyMetadata)]]

\* a store that keys a record by its content: a batch replaces the records of
\* the same content
AddDocumentsReplacingSameContent(coll, docs) ==
  SelectSeq(coll, LAMBDA d : \A k \in 1..Len(docs) : docs[k] # d) \o docs

\* vectorStore.addDocuments(docs): the store appends the batch to the collection
\* (every record under an id of its own)
AddDocuments(coll, docs) == coll \o docs

\* an addDocuments call that fails after the store has written k of the records
\* (the code fixes no transaction over a batch; k = 0: nothing was written,
\* k = the whole batch: only the acknowledgement was lost)
AddDocumentsUpTo(coll, docs, k) == coll \o SubSeq(docs, 1, k)

\* vectorStore.similaritySearchVectorWithScore(embedding, topK): the topK nearest
\* records, best first; all of them when the collection holds fewer
SimilaritySearch(coll, topK) ==
  [i \in 1..Min(topK, Len(coll)) |-> [doc |-> coll[i], score |-> 100 - i]]

\* a context entry that marks a chunk of the preview length as cut
ContextEntryEllipsisAtPreviewLen(idx, res) ==
  [number |-> idx,
   score |-> res.score,
   text |-> Substring(res.doc.pageContent, PreviewLen),
   ellipsis |-> res.doc.pageContent.len >= PreviewLen]

\* the context string: vectorResults.map(...).join('\n\n'), one entry per result
ContextEntry(idx, res) ==
  [number |-> idx,
   score |-> res.score,
   text |-> Substring(res.doc.pageContent, PreviewLen),
   ellipsis |-> res.doc.pageContent.len > PreviewLen]

ContextOf(vectorResults) ==
  [idx \in 1..Len(vectorResults) |-> ContextEntry(idx, vectorResults[idx])]

\* the two messages sent to the chat model; the human message is the template
\* `User question: ${userQuery}\n\nvector database results:\n${context}`
BuildMessages(userQuery, vectorResults) ==
  [system |-> "defaultInstruction",
   human |-> <<[kind |-> "literal", text |-> "User question: "],
               [kind |-> "userQuery", text |-> userQuery],
               [kind |-> "literal", text |-> "\n\nvector database results:\n"],
               [kind |-> "context", entries |-> ContextOf(vectorResults)]>>]

\* new GoogleGenerativeAIEmbeddings({apiKey, model}),
\* new ChatGoogleGenerativeAI({apiKey, model, ...})
Client(apiKey, model) == [apiKey |-> apiKey, model |-> model]

\* connectToVectorDB: the embeddings client and the Qdrant options of every
\* store it returns
StoreOptions ==
  [embeddings |-> Client(ProcessEnv.GOOGLE_API_KEY, StoreEmbeddingModel),
   url |-> ProcessEnv.QDRANT_URL,
   collectionName |-> "genai-embedding-demo",
   apiKey |-> ProcessEnv.QDRANT_API_KEY]

\* if (!vectorStoreInstance)
NeedsConnect(instance) == instance = NoHandle

\* ---- initial state ------------------------------------------------------
\* the arguments of a RecursiveCharacterTextSplitter that was not constructed
NoSplitter == [constructed |-> FALSE, chunkSize |-> 0, chunkOverlap |-> 0]

\* new RecursiveCharacterTextSplitter({chunkSize, chunkOverlap})
Splitter(chunkSize, chunkOverlap) ==
  [constructed |-> TRUE, chunkSize |-> chunkSize, chunkOverlap |-> chunkOverlap]

NoOptions ==
  [apiKey |-> Null, chunkSize |-> 0, chunkOverlap |-> 0, embeddingModel |-> <<>>]

\* the arguments of a GoogleGenerativeAIEmbeddings / ChatGoogleGenerativeAI
\* client that was not constructed
NoClient == [apiKey |-> Null, model |-> <<>>]

InitRun ==
  [pc |-> "idle", file |-> Null, config |-> NoConfig, opts |-> NoOptions,
   embedWith |-> NoClient, storeWith |-> NoClient, splitWith |-> NoSplitter,
   loads |-> 0, splits |-> 0, adds |-> 0, n |-> 0, chunks |-> <<>>, i |-> 0, embeddings |-> <<>>,
   embedded |-> <<>>, calls |-> 0, delays |-> 0, inFlight |-> 0,
   started |-> <<>>, completed |-> <<>>, docs |-> <<>>, conn |-> NoHandle,
   handle |-> NoHandle, late |-> FALSE, failedAt |-> 0, thrown |-> NoError, error |-> NoError]

NoQueryOptions == [apiKey |-> Null, embeddingModel |-> <<>>, chatModel |-> <<>>]

\* a query that returns the best result only
ReturnValueBestOnly(results, answer) ==
  [results |-> SubSeq(results, 1, Min(1, Len(results))), answer |-> answer]

\* queryAndGenerate: return {results, answer}
ReturnValue(results, answer) == [results |-> results, answer |-> answer]

InitQry ==
  [pc |-> "idle", config |-> NoConfig, args |-> NoQueryArgs, opts |-> NoQueryOptions,
   embedWith |-> NoClient, chatWith |-> NoClient,
   embeds |-> 0, searches |-> 0, started |-> <<>>, completed |-> <<>>,
   value |-> ReturnValue(<<>>, Null),
   topK |-> 0, conn |-> NoHandle, handle |-> NoHandle,
   late |-> FALSE, results |-> <<>>, messages |-> <<>>, genCalls |-> 0, answer |-> Null,
   returned |-> FALSE, error |-> NoError]

InitCli ==
  [pc |-> "idle", topK |-> 0, instance |-> NoHandle, connects |-> 0,
   vectorResults |-> <<>>, results |-> <<>>, messages |-> <<>>, genCalls |-> 0,
   answer |-> Null, error |-> NoError, exitCode |-> Null]

\* no chunkDocuments call is followed character by character
NoSplit ==
  [pc |-> "none", documents |-> <<>>, chunkSize |-> 0, chunkOverlap |-> 0,
   chunks |-> <<>>, again |-> <<>>]

\* an HTTP request the server has not received: nothing read from it, no
\* orchestrator call made for it, no response sent
NoRequest == [pc |-> "idle", req |-> [none |-> TRUE], invoked |-> 0, responses |-> <<>>]

\* clearVectorStore has not been called
NoClear ==
  [pc |-> "idle", conn |-> NoHandle, handle |-> NoHandle, seen |-> <<>>,
   error |-> NoError]

\* no pipeline script was started
NoScript ==
  [pc |-> "idle", argv |-> <<>>, chunkSize |-> 0, chunkOverlap |-> 0,
   splitWith |-> NoSplitter, exitCode |-> Null]

Init ==
  /\ spl = NoSplit
  /\ http = [id \in Runs \cup Queries |-> NoRequest]
  /\ clr = NoClear
  /\ scr = NoScript
  /\ vectorStoreInstance = NoHandle
  /\ connectCalls = 0
  /\ firstHandle = NoHandle
  /\ collection = <<>>
  /\ run = [r \in Runs |-> InitRun]
  /\ qry = [q \in Queries |-> InitQry]
  /\ cli = InitCli

\* ---- processPDF ---------------------------------------------------------
\* processPDF's promise rejects: a stage threw `thrown`, which reached the
\* pipeline's catch as `rethrown`
Failed(rec, thrown, rethrown) ==
  [rec EXCEPT !.pc = "failed", !.thrown = thrown,
              !.error = PipelineRethrow(rethrown), !.inFlight = 0]

\* processPDF(filePath, config) is called: the defaults are filled in and
\* loadPDF(filePath) awaits loader.load()
ProcessPDF(r, filePath, config) ==
  /\ run[r].pc = "idle"
  /\ run' = [run EXCEPT ![r] = [@ EXCEPT !.pc = "load", !.file = filePath,
                                        !.config = config,
                                        !.opts = ProcessPDFOptions(config),
                                        !.loads = @ + 1,
                                        !.started = <<"load">>]]
  /\ UNCHANGED <<clr, scr, spl, vectorStoreInstance, connectCalls, firstHandle, collection, qry, cli>>

\* path.join(CONFIG.UPLOAD_DIR, req.file.filename): multer saves every upload
\* under a name of its own
UploadPath(r) == r

\* POST /upload-pdf: processPDF(filePath, processingConfig)
StartProcessPDF(r) ==
  /\ ProcessPDF(r, UploadPath(r), ServerConfig)
  /\ UNCHANGED http

\* a caller of the orchestrator's export, with a config of its own
CallProcessPDF(r) ==
  /\ \E config \in CallerConfigs : ProcessPDF(r, r, config)
  /\ UNCHANGED http

\* loader.load() resolves; chunkDocuments constructs the splitter, which throws
\* (outside chunkDocuments' try) or is asked to split: splitDocuments is awaited
LoadReturn(r) ==
  /\ run[r].pc = "load"
  /\ run' = [run EXCEPT ![r] =
               IF SplitterRejects(run[r].opts.chunkSize, run[r].opts.chunkOverlap)
               THEN [Failed(@, "SplitterError", "SplitterError")
                       EXCEPT !.completed = Append(@, "load"),
                              !.started = Append(@, "chunk")]
               ELSE [@ EXCEPT !.pc = "chunk", !.splits = @ + 1,
                              !.splitWith = Splitter(run[r].opts.chunkSize,
                                                     run[r].opts.chunkOverlap),
                              !.completed = Append(@, "load"),
                              !.started = Append(@, "chunk")]]
  /\ UNCHANGED <<http, clr, scr, spl, vectorStoreInstance, connectCalls, firstHandle, collection, qry, cli>>

LoadFail(r) ==
  /\ run[r].pc = "load"
  /\ run' = [run EXCEPT ![r] = Failed(@, "LoadError", LoadRethrow("LoadError"))]
  /\ UNCHANGED <<http, clr, scr, spl, vectorStoreInstance, connectCalls, firstHandle, collection, qry, cli>>

\* the numbers of chunks other runs got for the same file with the same chunk
\* size and overlap: the pages of a file and the splitter's arguments determine
\* the chunks
ChunkedAlready(r) ==
  {run[o].n : o \in {o \in Runs \ {r} : /\ run[o].file = run[r].file
                                        /\ run[o].splitWith = run[r].splitWith
                                        /\ Len(run[o].completed) >= 2}}

\* a pipeline without the diagnostic embedding step: chunk, then store
ChunkReturnSkipsEmbedding(r) ==
  /\ run[r].pc = "chunk"
  /\ \E n \in 0..MaxChunks :
       /\ ChunkedAlready(r) \subseteq {n}
       /\ run' = [run EXCEPT ![r] = [@ EXCEPT !.pc = "store", !.n = n,
                                          !.chunks = ChunksOf(run[r].file, n, run[r].opts.chunkSize),
                                          !.completed = Append(@, "chunk"),
                                          !.started = Append(@, "store")]]
  /\ UNCHANGED <<http, clr, scr, spl, vectorStoreInstance, connectCalls, firstHandle, collection, qry, cli>>

\* splitDocuments resolves with n chunks; createEmbeddings starts its loop (i = 0)
ChunkReturn(r) ==
  /\ run[r].pc = "chunk"
  /\ \E n \in 0..MaxChunks :
       /\ ChunkedAlready(r) \subseteq {n}
       /\ run' = [run EXCEPT ![r] = [@ EXCEPT !.pc = "embed", !.n = n,
                                          !.chunks = ChunksOf(run[r].file, n, run[r].opts.chunkSize), !.i = 0,
                                          !.completed = Append(@, "chunk"),
                                          !.started = Append(@, "embed")]]
  /\ UNCHANGED <<http, clr, scr, spl, vectorStoreInstance, connectCalls, firstHandle, collection, qry, cli>>

ChunkFail(r) ==
  /\ run[r].pc = "chunk"
  /\ run' = [run EXCEPT ![r] = Failed(@, "ChunkError", ChunkRethrow("ChunkError"))]
  /\ UNCHANGED <<http, clr, scr, spl, vectorStoreInstance, connectCalls, firstHandle, collection, qry, cli>>

\* for (let i = 0; i < chunks.length; i++): await createEmbedding(chunks[i])
EmbedCall(r) ==
  /\ run[r].pc = "embed"
  /\ run[r].i < Len(run[r].chunks)
  /\ run' = [run EXCEPT ![r] = [@ EXCEPT !.pc = "embedCall", !.calls = @ + 1,
                                        !.inFlight = @ + 1,
                                        !.embedWith = Client(run[r].opts.apiKey,
                                                             run[r].opts.embeddingModel)]]
  /\ UNCHANGED <<http, clr, scr, spl, vectorStoreInstance, connectCalls, firstHandle, collection, qry, cli>>

\* a loop that goes on to the next chunk without the delay
EmbedReturnSkipsDelay(r) ==
  /\ run[r].pc = "embedCall"
  /\ LET rec == run[r]
         chunk == rec.chunks[rec.i + 1]
         pushed == PushEmbedding(rec.embeddings, chunk, EmbedVector(chunk.pageContent))
     IN run' = [run EXCEPT ![r] = [@ EXCEPT !.pc = "embed", !.embeddings = pushed,
                                           !.inFlight = @ - 1, !.i = @ + 1]]
  /\ UNCHANGED <<http, clr, scr, spl, vectorStoreInstance, connectCalls, firstHandle, collection, qry, cli>>

\* embedQuery resolves: push, then the delay unless this was the last chunk
EmbedReturn(r) ==
  /\ run[r].pc = "embedCall"
  /\ LET rec == run[r]
         chunk == rec.chunks[rec.i + 1]
         pushed == PushEmbedding(rec.embeddings, chunk, EmbedVector(chunk.pageContent))
     IN run' = [run EXCEPT ![r] =
                  IF rec.i < Len(rec.chunks) - 1
                  THEN [@ EXCEPT !.pc = "embedDelay", !.embeddings = pushed,
                                 !.inFlight = @ - 1]
                  ELSE [@ EXCEPT !.pc = "embed", !.embeddings = pushed,
                                 !.inFlight = @ - 1, !.i = @ + 1]]
  /\ UNCHANGED <<http, clr, scr, spl, vectorStoreInstance, connectCalls, firstHandle, collection, qry, cli>>

\* the setTimeout(resolve, 100) promise resolves; i++
DelayElapsed(r) ==
  /\ run[r].pc = "embedDelay"
  /\ run' = [run EXCEPT ![r] = [@ EXCEPT !.pc = "embed", !.delays = @ + 1, !.i = @ + 1]]
  /\ UNCHANGED <<http, clr, scr, spl, vectorStoreInstance, connectCalls, firstHandle, collection, qry, cli>>

\* a loop that swallows the failure, pushes an empty vector and goes on
EmbedFailSubstitutesDefault(r) ==
  /\ run[r].pc = "embedCall"
  /\ LET rec == run[r]
         pushed == PushEmbedding(rec.embeddings, rec.chunks[rec.i + 1], <<>>)
     IN run' = [run EXCEPT ![r] =
                  IF rec.i < Len(rec.chunks) - 1
                  THEN [@ EXCEPT !.pc = "embedDelay", !.embeddings = pushed,
                                 !.inFlight = @ - 1, !.failedAt = rec.i + 1,
                                 !.thrown = "EmbedError"]
                  ELSE [@ EXCEPT !.pc = "embed", !.embeddings = pushed,
                                 !.inFlight = @ - 1, !.i = @ + 1,
                                 !.failedAt = rec.i + 1, !.thrown = "EmbedError"]]
  /\ UNCHANGED <<http, clr, scr, spl, vectorStoreInstance, connectCalls, firstHandle, collection, qry, cli>>

\* a loop that, when a call fails, stores the chunks embedded so far
EmbedFailStoresEmbedded(r) ==
  /\ run[r].pc = "embedCall"
  /\ collection' = AddDocuments(collection,
                                DocsToStore(SubSeq(run[r].chunks, 1, run[r].i)))
  /\ run' = [run EXCEPT ![r] =
               [Failed(@, "EmbedError", EmbeddingsRethrow(EmbeddingRethrow("EmbedError")))
                  EXCEPT !.failedAt = run[r].i + 1]]
  /\ UNCHANGED <<http, clr, scr, spl, vectorStoreInstance, connectCalls, firstHandle, qry, cli>>

\* embedQuery rejects: createEmbedding and createEmbeddings rethrow
EmbedFail(r) ==
  /\ run[r].pc = "embedCall"
  /\ run' = [run EXCEPT ![r] =
               [Failed(@, "EmbedError", EmbeddingsRethrow(EmbeddingRethrow("EmbedError")))
                  EXCEPT !.failedAt = run[r].i + 1]]
  /\ UNCHANGED <<http, clr, scr, spl, vectorStoreInstance, connectCalls, firstHandle, collection, qry, cli>>

\* the loop ends; createEmbeddings returns the list; storeEmbeddings is called
EmbeddingsReturn(r) ==
  /\ run[r].pc = "embed"
  /\ ~(run[r].i < Len(run[r].chunks))
  /\ run' = [run EXCEPT ![r] = [@ EXCEPT !.pc = "store", !.embedded = run[r].embeddings,
                                        !.completed = Append(@, "embed"),
                                        !.started = Append(@, "store")]]
  /\ UNCHANGED <<http, clr, scr, spl, vectorStoreInstance, connectCalls, firstHandle, collection, qry, cli>>

\* storeEmbeddings: initVectorStore(); a cached instance is returned at once and
\* addDocuments(docsToStore) is awaited (the store embeds the documents with its
\* own client and upserts them), else connectToVectorDB() is awaited
StoreInit(r) ==
  /\ run[r].pc = "store"
  /\ IF NeedsConnect(vectorStoreInstance)
     THEN /\ connectCalls' = connectCalls + 1
          /\ run' = [run EXCEPT ![r] = [@ EXCEPT !.pc = "connect",
                                               !.conn = connectCalls + 1,
                                               !.late = firstHandle # NoHandle]]
     ELSE /\ connectCalls' = connectCalls
          /\ run' = [run EXCEPT ![r] = [@ EXCEPT !.pc = "add",
                                               !.handle = vectorStoreInstance,
                                               !.late = firstHandle # NoHandle,
                                               !.adds = @ + 1,
                                               !.storeWith = StoreOptions.embeddings,
                                               !.docs = DocsToStore(run[r].chunks)]]
  /\ UNCHANGED <<http, clr, scr, spl, vectorStoreInstance, firstHandle, collection, qry, cli>>

\* connectToVectorDB resolves: vectorStoreInstance = <new store>; return it
RunConnectReturn(r) ==
  /\ run[r].pc = "connect"
  /\ vectorStoreInstance' = run[r].conn
  /\ firstHandle' = IF firstHandle = NoHandle THEN run[r].conn ELSE firstHandle
  /\ run' = [run EXCEPT ![r] = [@ EXCEPT !.pc = "add", !.handle = run[r].conn,
                                        !.adds = @ + 1,
                                        !.storeWith = StoreOptions.embeddings,
                                        !.docs = DocsToStore(run[r].chunks)]]
  /\ UNCHANGED <<http, clr, scr, spl, connectCalls, collection, qry, cli>>

\* an initVectorStore that keeps the store of the failed attempt as the singleton
RunConnectFailCachesHandle(r) ==
  /\ run[r].pc = "connect"
  /\ vectorStoreInstance' = run[r].conn
  /\ run' = [run EXCEPT ![r] = Failed(@, "ConnectError", "ConnectError")]
  /\ UNCHANGED <<http, clr, scr, spl, connectCalls, firstHandle, collection, qry, cli>>

\* connectToVectorDB rejects: initVectorStore is awaited outside storeEmbeddings' try
RunConnectFail(r) ==
  /\ run[r].pc = "connect"
  /\ run' = [run EXCEPT ![r] = Failed(@, "ConnectError", "ConnectError")]
  /\ UNCHANGED <<http, clr, scr, spl, vectorStoreInstance, connectCalls, firstHandle, collection, qry, cli>>

\* addDocuments resolves: the batch is in the collection; processPDF returns
AddReturn(r) ==
  /\ run[r].pc = "add"
  /\ collection' = AddDocuments(collection, run[r].docs)
  /\ run' = [run EXCEPT ![r] = [@ EXCEPT !.pc = "done",
                                        !.completed = Append(@, "store")]]
  /\ UNCHANGED <<http, clr, scr, spl, vectorStoreInstance, connectCalls, firstHandle, qry, cli>>

\* a store step whose catch logs the failure and returns normally
AddFailSwallowed(r) ==
  /\ run[r].pc = "add"
  /\ \E k \in 0..Len(run[r].docs) :
       collection' = AddDocumentsUpTo(collection, run[r].docs, k)
  /\ run' = [run EXCEPT ![r] = [@ EXCEPT !.pc = "done", !.thrown = "StoreError",
                                        !.completed = Append(@, "store")]]
  /\ UNCHANGED <<http, clr, scr, spl, vectorStoreInstance, connectCalls, firstHandle, qry, cli>>

\* addDocuments rejects, the store having written none, a part or all of the
\* batch: storeEmbeddings rethrows and undoes nothing
AddFail(r) ==
  /\ run[r].pc = "add"
  /\ \E k \in 0..Len(run[r].docs) :
       collection' = AddDocumentsUpTo(collection, run[r].docs, k)
  /\ run' = [run EXCEPT ![r] = Failed(@, "StoreError", StoreRethrow("StoreError"))]
  /\ UNCHANGED <<http, clr, scr, spl, vectorStoreInstance, connectCalls, firstHandle, qry, cli>>

\* the same PDF file handed to processPDF by more than one caller
SamePdf == "policy.pdf"

ReingestProcessPDF(r) ==
  /\ ProcessPDF(r, SamePdf, ServerConfig)
  /\ UNCHANGED http

\* the documents of a caller of storeEmbeddings: Document[], with metadata or
\* without
CallerChunks ==
  {<<[pageContent |-> [id |-> <<"note", 1>>, len |-> 10]]>>,
   <<[pageContent |-> [id |-> <<"note", 1>>, len |-> 10],
      metadata |-> [source |-> "caller"]],
     [pageContent |-> [id |-> <<"note", 2>>, len |-> 20]]>>}

\* storeEmbeddings(chunks) called by a caller of its own: initVectorStore()
CallStoreEmbeddings(r) ==
  /\ run[r].pc = "idle"
  /\ \E chunks \in CallerChunks :
       run' = [run EXCEPT ![r] = [@ EXCEPT !.pc = "store", !.chunks = chunks,
                                          !.n = Len(chunks)]]
  /\ UNCHANGED <<http, clr, scr, spl, vectorStoreInstance, connectCalls, firstHandle,
                 collection, qry, cli>>

RunStep(r) ==
  \/ StartProcessPDF(r)
  \/ LoadReturn(r)
  \/ LoadFail(r)
  \/ ChunkReturn(r)
  \/ ChunkFail(r)
  \/ EmbedCall(r)
  \/ EmbedReturn(r)
  \/ DelayElapsed(r)
  \/ EmbedFail(r)
  \/ EmbeddingsReturn(r)
  \/ StoreInit(r)
  \/ RunConnectReturn(r)
  \/ RunConnectFail(r)
  \/ AddReturn(r)
  \/ AddFail(r)

\* ---- clearVectorStore ---------------------------------------------------
\* clearVectorStore(): initVectorStore() is awaited, with the singleton at hand
\* or connectToVectorDB() in flight
ClearVectorStore ==
  /\ clr.pc = "idle"
  /\ IF NeedsConnect(vectorStoreInstance)
     THEN /\ connectCalls' = connectCalls + 1
          /\ clr' = [clr EXCEPT !.pc = "connect", !.conn = connectCalls + 1,
                                !.seen = collection]
     ELSE /\ connectCalls' = connectCalls
          /\ clr' = [clr EXCEPT !.pc = "init", !.handle = vectorStoreInstance,
                                !.seen = collection]
  /\ UNCHANGED <<http, scr, spl, vectorStoreInstance, firstHandle, collection, run, qry, cli>>

\* connectToVectorDB resolves: vectorStoreInstance = <new store>
ClearConnectReturn ==
  /\ clr.pc = "connect"
  /\ vectorStoreInstance' = clr.conn
  /\ firstHandle' = IF firstHandle = NoHandle THEN clr.conn ELSE firstHandle
  /\ clr' = [clr EXCEPT !.pc = "init", !.handle = clr.conn]
  /\ UNCHANGED <<http, scr, spl, connectCalls, collection, run, qry, cli>>

\* connectToVectorDB rejects: clearVectorStore catches nothing
ClearConnectFail ==
  /\ clr.pc = "connect"
  /\ clr' = [clr EXCEPT !.pc = "failed", !.error = "ConnectError"]
  /\ UNCHANGED <<http, scr, spl, vectorStoreInstance, connectCalls, firstHandle, collection,
                 run, qry, cli>>

\* a clearVectorStore that deletes the records of the collection
ClearReturnDeletesAll ==
  /\ clr.pc = "init"
  /\ clr' = [clr EXCEPT !.pc = "done"]
  /\ collection' = <<>>
  /\ UNCHANGED <<http, scr, spl, vectorStoreInstance, connectCalls, firstHandle, run, qry, cli>>

\* initVectorStore has resolved: console.log('Vector store cleared'); return
ClearReturn ==
  /\ clr.pc = "init"
  /\ clr' = [clr EXCEPT !.pc = "done"]
  /\ UNCHANGED <<http, scr, spl, vectorStoreInstance, connectCalls, firstHandle, collection,
                 run, qry, cli>>

ClearStep ==
  \/ ClearVectorStore
  \/ ClearConnectReturn
  \/ ClearConnectFail
  \/ ClearReturn

\* ---- the pipeline scripts (complete-pipeline.ts, step2-chunking.ts) -------
\* a command line argument is the sequence of its characters
IsDigit(c) == c \in {"0", "1", "2", "3", "4", "5", "6", "7", "8", "9"}

DigitValue(c) ==
  CHOOSE d \in 0..9 : <<"0", "1", "2", "3", "4", "5", "6", "7", "8", "9">>[d + 1] = c

\* the number the leading digits of a text denote
RECURSIVE ParseDigits(_, _)
ParseDigits(text, value) ==
  IF text = <<>> \/ ~IsDigit(Head(text)) THEN value
  ELSE ParseDigits(Tail(text), 10 * value + DigitValue(Head(text)))

NaN == [nan |-> TRUE, value |-> 0]

\* process.argv[i]: undefined past the end of the command line
ArgvAt(argv, i) ==
  IF i + 1 <= Len(argv) THEN [defined |-> TRUE, text |-> argv[i + 1]]
  ELSE [defined |-> FALSE, text |-> <<>>]

\* parseInt(arg): white space is skipped, then a sign and the leading digits
\* are read; NaN when there is no digit to read or no argument
ParseInt(arg) ==
  LET text == TrimStart(arg.text)
      signed == text # <<>> /\ Head(text) \in {"-", "+"}
      digits == IF signed THEN Tail(text) ELSE text
  IN IF ~arg.defined \/ digits = <<>> \/ ~IsDigit(Head(digits)) THEN NaN
     ELSE [nan |-> FALSE,
           value |-> IF signed /\ Head(text) = "-"
                     THEN 0 - ParseDigits(digits, 0) ELSE ParseDigits(digits, 0)]

\* parsed || dflt: the default when the number is NaN or 0
OrDefault(parsed, dflt) ==
  IF parsed.nan \/ parsed.value = 0 THEN dflt ELSE parsed.value

\* the arguments a chunk size or an overlap is given as
ArgTexts ==
  {<<"0">>, <<"5", "0">>, <<"7", "5">>, <<"5", "0", "0">>, <<"1", "0", "0", "0">>,
   <<"a", "l", "l">>}

\* node <script> <pdf-path> [chunk-size] [overlap]
CommandLines ==
  {<<"node", "script", "doc.pdf">>}
  \cup {<<"node", "script", "doc.pdf", size>> : size \in ArgTexts}
  \cup {<<"node", "script", "doc.pdf", size, overlap>> : size, overlap \in ArgTexts}

\* main: chunkSize = parseInt(process.argv[3]) || 500,
\* chunkOverlap = parseInt(process.argv[4]) || 75; the file exists and
\* loadPDF(pdfPath) is awaited
ScriptMain ==
  /\ scr.pc = "idle"
  /\ \E argv \in CommandLines :
       scr' = [scr EXCEPT !.pc = "load", !.argv = argv,
                          !.chunkSize = OrDefault(ParseInt(ArgvAt(argv, 3)),
                                                  DefaultChunkSize),
                          !.chunkOverlap = OrDefault(ParseInt(ArgvAt(argv, 4)),
                                                     DefaultChunkOverlap)]
  /\ UNCHANGED <<http, clr, spl, vectorStoreInstance, connectCalls, firstHandle, collection,
                 run, qry, cli>>

\* loadPDF resolves; chunkDocuments(documents, chunkSize, chunkOverlap)
\* constructs the splitter, which throws (main's catch: process.exit(1)) or is
\* asked to split
ScriptLoadReturn ==
  /\ scr.pc = "load"
  /\ scr' = IF SplitterRejects(scr.chunkSize, scr.chunkOverlap)
            THEN [scr EXCEPT !.pc = "exited", !.exitCode = "1"]
            ELSE [scr EXCEPT !.pc = "chunk",
                             !.splitWith = Splitter(scr.chunkSize, scr.chunkOverlap)]
  /\ UNCHANGED <<http, clr, spl, vectorStoreInstance, connectCalls, firstHandle, collection,
                 run, qry, cli>>

\* splitDocuments resolves; the script goes on with the chunks
ScriptChunkReturn ==
  /\ scr.pc = "chunk"
  /\ scr' = [scr EXCEPT !.pc = "chunked"]
  /\ UNCHANGED <<http, clr, spl, vectorStoreInstance, connectCalls, firstHandle, collection,
                 run, qry, cli>>

\* loadPDF or splitDocuments rejects: main's catch calls process.exit(1)
ScriptFail ==
  /\ scr.pc \in {"load", "chunk"}
  /\ scr' = [scr EXCEPT !.pc = "exited", !.exitCode = "1"]
  /\ UNCHANGED <<http, clr, spl, vectorStoreInstance, connectCalls, firstHandle, collection,
                 run, qry, cli>>

ScriptStep ==
  \/ ScriptMain
  \/ ScriptLoadReturn
  \/ ScriptChunkReturn
  \/ ScriptFail

\* ---- queryKnowledgeBase (server) ---------------------------------------
\* queryAndGenerate's promise rejects with the error the failing step threw
QueryFailed(rec, thrown) == [rec EXCEPT !.pc = "failed", !.error = thrown]

\* queryKnowledgeBase(userQuery, config, topK = 3) -> queryAndGenerate ->
\* queryVectorDB: initVectorStore(); with a store at hand the embeddings client
\* is constructed from the arguments and embeddings.embedQuery(query) is awaited
QueryKnowledgeBase(q, config, args) ==
  /\ qry[q].pc = "idle"
  /\ LET opts == QueryOptions(config)
         k == FieldOr(args, "topK", DefaultTopK)
     IN IF NeedsConnect(vectorStoreInstance)
        THEN /\ connectCalls' = connectCalls + 1
             /\ qry' = [qry EXCEPT ![q] =
                          [@ EXCEPT !.pc = "connect", !.topK = k,
                                    !.config = config, !.args = args, !.opts = opts,
                                    !.started = <<"connect">>,
                                    !.conn = connectCalls + 1,
                                    !.late = firstHandle # NoHandle]]
        ELSE /\ connectCalls' = connectCalls
             /\ qry' = [qry EXCEPT ![q] =
                          [@ EXCEPT !.pc = "embedQuery", !.topK = k,
                                    !.config = config, !.args = args, !.opts = opts,
                                    !.started = <<"connect", "embedQuery">>,
                                    !.completed = <<"connect">>,
                                    !.embeds = @ + 1,
                                    !.embedWith = Client(opts.apiKey, opts.embeddingModel),
                                    !.handle = vectorStoreInstance,
                                    !.late = firstHandle # NoHandle]]
  /\ UNCHANGED <<clr, scr, spl, vectorStoreInstance, firstHandle, collection, run, cli>>

\* POST /query with a topK of at least 1: queryKnowledgeBase(query,
\* processingConfig, topK)
StartQuery(q) ==
  /\ \E k \in 1..MaxTopK : QueryKnowledgeBase(q, ServerConfig, QueryArgs(k))
  /\ UNCHANGED http

\* the topK a caller can pass: any number (POST /query takes it from the request
\* body as it is)
TopKs == (0 - 1)..MaxTopK

\* a caller of the orchestrator's export, with a config of its own and a topK
\* of its own or none
CallQueryKnowledgeBase(q) ==
  /\ \E config \in CredentialConfigs \cup ChatConfigs,
        args \in {QueryArgs(k) : k \in TopKs} \cup {QueryArgsNoTopK} :
       QueryKnowledgeBase(q, config, args)
  /\ UNCHANGED http

QueryConnectReturn(q) ==
  /\ qry[q].pc = "connect"
  /\ vectorStoreInstance' = qry[q].conn
  /\ firstHandle' = IF firstHandle = NoHandle THEN qry[q].conn ELSE firstHandle
  /\ qry' = [qry EXCEPT ![q] =
               [@ EXCEPT !.pc = "embedQuery", !.handle = qry[q].conn,
                         !.started = Append(@, "embedQuery"),
                         !.completed = Append(@, "connect"),
                         !.embeds = @ + 1,
                         !.embedWith = Client(qry[q].opts.apiKey,
                                              qry[q].opts.embeddingModel)]]
  /\ UNCHANGED <<http, clr, scr, spl, connectCalls, collection, run, cli>>

QueryConnectFail(q) ==
  /\ qry[q].pc = "connect"
  /\ qry' = [qry EXCEPT ![q] = QueryFailed(@, "ConnectError")]
  /\ UNCHANGED <<http, clr, scr, spl, vectorStoreInstance, connectCalls, firstHandle, collection, run, cli>>

\* embedQuery resolves; similaritySearchVectorWithScore(embedding, topK) is awaited
QueryEmbedReturn(q) ==
  /\ qry[q].pc = "embedQuery"
  /\ qry' = [qry EXCEPT ![q] = [@ EXCEPT !.pc = "search", !.searches = @ + 1,
                                        !.started = Append(@, "search"),
                                        !.completed = Append(@, "embedQuery")]]
  /\ UNCHANGED <<http, clr, scr, spl, vectorStoreInstance, connectCalls, firstHandle, collection, run, cli>>

QueryEmbedFail(q) ==
  /\ qry[q].pc = "embedQuery"
  /\ qry' = [qry EXCEPT ![q] = QueryFailed(@, "QueryEmbedError")]
  /\ UNCHANGED <<http, clr, scr, spl, vectorStoreInstance, connectCalls, firstHandle, collection, run, cli>>

\* the search resolves; generateResponseWithChatModel builds the messages and
\* awaits model.invoke(messages)
SearchReturn(q) ==
  /\ qry[q].pc = "search"
  /\ LET results == SimilaritySearch(collection, qry[q].topK)
     IN qry' = [qry EXCEPT ![q] = [@ EXCEPT !.pc = "generate", !.results = results,
                                          !.messages = BuildMessages(UserQuery, results),
                                          !.genCalls = @ + 1,
                                          !.chatWith = Client(qry[q].opts.apiKey,
                                                              qry[q].opts.chatModel),
                                          !.started = Append(@, "generate"),
                                          !.completed = Append(@, "search")]]
  /\ UNCHANGED <<http, clr, scr, spl, vectorStoreInstance, connectCalls, firstHandle, collection, run, cli>>

\* a search that is sent a second time when the first attempt fails
SearchFailRetriesOnce(q) ==
  /\ qry[q].pc = "search"
  /\ qry' = [qry EXCEPT ![q] = IF qry[q].searches < 2
                               THEN [@ EXCEPT !.searches = @ + 1]
                               ELSE QueryFailed(@, "SearchError")]
  /\ UNCHANGED <<http, clr, scr, spl, vectorStoreInstance, connectCalls, firstHandle, collection, run, cli>>

\* the search rejects: queryVectorDB and queryAndGenerate catch nothing
SearchFail(q) ==
  /\ qry[q].pc = "search"
  /\ qry' = [qry EXCEPT ![q] = QueryFailed(@, "SearchError")]
  /\ UNCHANGED <<http, clr, scr, spl, vectorStoreInstance, connectCalls, firstHandle, collection, run, cli>>

\* model.invoke resolves: return {results, answer}
GenerateReturn(q) ==
  /\ qry[q].pc = "generate"
  /\ qry' = [qry EXCEPT ![q] = [@ EXCEPT !.pc = "done", !.answer = ModelAnswer,
                                        !.value = ReturnValue(qry[q].results, ModelAnswer),
                                        !.completed = Append(@, "generate"),
                                        !.returned = TRUE]]
  /\ UNCHANGED <<http, clr, scr, spl, vectorStoreInstance, connectCalls, firstHandle, collection, run, cli>>

\* a query that answers with the retrieved results when generation fails
GenerateFailReturnsResults(q) ==
  /\ qry[q].pc = "generate"
  /\ qry' = [qry EXCEPT ![q] = [QueryFailed(@, "GenerateError")
                                 EXCEPT !.value = ReturnValue(qry[q].results, Null),
                                        !.returned = TRUE]]
  /\ UNCHANGED <<http, clr, scr, spl, vectorStoreInstance, connectCalls, firstHandle, collection, run, cli>>

\* model.invoke rejects: nothing is caught, queryAndGenerate's promise rejects
GenerateFail(q) ==
  /\ qry[q].pc = "generate"
  /\ qry' = [qry EXCEPT ![q] = QueryFailed(@, "GenerateError")]
  /\ UNCHANGED <<http, clr, scr, spl, vectorStoreInstance, connectCalls, firstHandle, collection, run, cli>>

\* the steps of a query once it is called
QueryContinue(q) ==
  \/ QueryConnectReturn(q)
  \/ QueryConnectFail(q)
  \/ QueryEmbedReturn(q)
  \/ QueryEmbedFail(q)
  \/ SearchReturn(q)
  \/ SearchFail(q)
  \/ GenerateReturn(q)
  \/ GenerateFail(q)

QueryStep(q) ==
  \/ StartQuery(q)
  \/ QueryContinue(q)

\* ---- the HTTP handlers (server.ts) ----------------------------------------
\* res.status(status).json({success, ...}); res.json answers with status 200
Response(status, success) == [status |-> status, success |-> success]

\* a value of a JSON body: its type (typeof) and what it holds
JsString(text) == [type |-> "string", text |-> text]

JsNumber(digits) == [type |-> "number", text |-> digits]

Undefined == [type |-> "undefined", text |-> ""]

\* !value
Falsy(value) ==
  \/ value.type \in {"undefined", "null"}
  \/ value.type = "string" /\ value.text = ""
  \/ value.type = "number" /\ value.text = "0"

\* req.body of a POST /query request, as express.json() parsed it: an object
\* with or without a query and a topK
EmptyBody == [key \in {} |-> Null]

QueryBodies ==
  {EmptyBody,
   [query |-> JsString("")],
   [query |-> JsNumber("7")],
   [query |-> JsNumber("0")],
   [query |-> [type |-> "null", text |-> ""]],
   [query |-> JsString(UserQuery)]}
  \cup {[query |-> JsString(UserQuery), topK |-> k] : k \in 1..MaxTopK}

\* POST /query: the request is rejected with 400, or queryKnowledgeBase(query,
\* processingConfig, topK) is called and awaited
PostQuery(q) ==
  /\ http[q].pc = "idle"
  /\ \E body \in QueryBodies :
       LET query == FieldOr(body, "query", Undefined)
           topK == FieldOr(body, "topK", DefaultTopK)
       IN IF Falsy(query) \/ query.type # "string"
          THEN /\ http' = [http EXCEPT ![q] =
                             [@ EXCEPT !.pc = "responded", !.req = body,
                                       !.responses = Append(@, Response(400, FALSE))]]
               /\ UNCHANGED <<clr, scr, spl, vectorStoreInstance, connectCalls, firstHandle, collection,
                        run, qry, cli>>
          ELSE /\ http' = [http EXCEPT ![q] =
                             [@ EXCEPT !.pc = "awaiting", !.req = body,
                                       !.invoked = @ + 1]]
               /\ QueryKnowledgeBase(q, ServerConfig, QueryArgs(topK))

\* queryKnowledgeBase returned: res.json({success: true, query, answer, ...})
QueryRespondSuccess(q) ==
  /\ http[q].pc = "awaiting"
  /\ qry[q].pc = "done"
  /\ http' = [http EXCEPT ![q] =
                [@ EXCEPT !.pc = "responded",
                          !.responses = Append(@, Response(200, TRUE))]]
  /\ UNCHANGED <<clr, scr, spl, vectorStoreInstance, connectCalls, firstHandle, collection,
                        run, qry, cli>>

\* a handler that answers a failed query with an empty success response
QueryRespondFailureAsSuccess(q) ==
  /\ http[q].pc = "awaiting"
  /\ qry[q].pc = "failed"
  /\ http' = [http EXCEPT ![q] =
                [@ EXCEPT !.pc = "responded",
                          !.responses = Append(@, Response(200, TRUE))]]
  /\ UNCHANGED <<clr, scr, spl, vectorStoreInstance, connectCalls, firstHandle, collection,
                        run, qry, cli>>

\* queryKnowledgeBase raised: catch, res.status(500).json({success: false, ...})
QueryRespondFailure(q) ==
  /\ http[q].pc = "awaiting"
  /\ qry[q].pc = "failed"
  /\ http' = [http EXCEPT ![q] =
                [@ EXCEPT !.pc = "responded",
                          !.responses = Append(@, Response(500, FALSE))]]
  /\ UNCHANGED <<clr, scr, spl, vectorStoreInstance, connectCalls, firstHandle, collection,
                        run, qry, cli>>

\* what a POST /upload-pdf request carries in its pdf field: a PDF file, no
\* file, a file that is not a PDF, a file over the size limit
Uploads == {"pdf", "none", "notPdf", "tooLarge"}

\* a handler that answers as soon as the file is saved and processes it then
PostUploadPdfAnswersAtOnce(r) ==
  /\ http[r].pc = "idle"
  /\ http' = [http EXCEPT ![r] =
                [@ EXCEPT !.pc = "responded", !.req = [file |-> "pdf"],
                          !.invoked = @ + 1,
                          !.responses = Append(@, Response(200, TRUE))]]
  /\ ProcessPDF(r, UploadPath(r), ServerConfig)

\* POST /upload-pdf: multer rejects the file (the error middleware answers),
\* the handler finds no file and answers 400, or processPDF(filePath,
\* processingConfig) is called and awaited
PostUploadPdf(r) ==
  /\ http[r].pc = "idle"
  /\ \E file \in Uploads :
       IF file = "pdf"
       THEN /\ http' = [http EXCEPT ![r] =
                          [@ EXCEPT !.pc = "awaiting", !.req = [file |-> file],
                                    !.invoked = @ + 1]]
            /\ ProcessPDF(r, UploadPath(r), ServerConfig)
       ELSE /\ http' = [http EXCEPT ![r] =
                          [@ EXCEPT !.pc = "responded", !.req = [file |-> file],
                                    !.responses =
                                      Append(@, IF file = "notPdf"
                                                THEN Response(500, FALSE)
                                                ELSE Response(400, FALSE))]]
            /\ UNCHANGED <<clr, scr, spl, vectorStoreInstance, connectCalls, firstHandle, collection,
                        run, qry, cli>>

\* processPDF returned: res.json({success: true, ...})
UploadRespondSuccess(r) ==
  /\ http[r].pc = "awaiting"
  /\ run[r].pc = "done"
  /\ http' = [http EXCEPT ![r] =
                [@ EXCEPT !.pc = "responded",
                          !.responses = Append(@, Response(200, TRUE))]]
  /\ UNCHANGED <<clr, scr, spl, vectorStoreInstance, connectCalls, firstHandle, collection,
                        run, qry, cli>>

\* processPDF raised: catch, res.status(500).json({success: false, ...})
UploadRespondFailure(r) ==
  /\ http[r].pc = "awaiting"
  /\ run[r].pc = "failed"
  /\ http' = [http EXCEPT ![r] =
                [@ EXCEPT !.pc = "responded",
                          !.responses = Append(@, Response(500, FALSE))]]
  /\ UNCHANGED <<clr, scr, spl, vectorStoreInstance, connectCalls, firstHandle, collection,
                        run, qry, cli>>

\* the handler's own steps once the orchestrator's promise has settled
QueryRespond(q) ==
  \/ QueryRespondSuccess(q)
  \/ QueryRespondFailure(q)

UploadRespond(r) ==
  \/ UploadRespondSuccess(r)
  \/ UploadRespondFailure(r)

\* ---- step5-query.ts main (a process of its own) --------------------------
\* main: initVectorStore() in its own process, where the singleton starts null
CliStart ==
  /\ cli.pc = "idle"
  /\ \E k \in 1..MaxTopK :
       cli' = [cli EXCEPT !.pc = "connect", !.topK = k, !.connects = @ + 1]
  /\ UNCHANGED <<http, clr, scr, spl, vectorStoreInstance, connectCalls, firstHandle, collection, run, qry>>

\* the connection is cached; queryVectorDB finds it and awaits embedQuery
CliConnectReturn ==
  /\ cli.pc = "connect"
  /\ cli' = [cli EXCEPT !.pc = "embed1", !.instance = 1]
  /\ UNCHANGED <<http, clr, scr, spl, vectorStoreInstance, connectCalls, firstHandle, collection, run, qry>>

CliEmbed1Return ==
  /\ cli.pc = "embed1"
  /\ cli' = [cli EXCEPT !.pc = "search1"]
  /\ UNCHANGED <<http, clr, scr, spl, vectorStoreInstance, connectCalls, firstHandle, collection, run, qry>>

\* queryVectorDB returns vectorResults: if (vectorResults.length === 0)
\* process.exit(1); otherwise queryAndGenerate embeds and searches again
CliSearch1Return ==
  /\ cli.pc = "search1"
  /\ LET vectorResults == SimilaritySearch(collection, cli.topK)
     IN cli' = IF Len(vectorResults) = 0
               THEN [cli EXCEPT !.pc = "exited", !.vectorResults = vectorResults,
                                !.exitCode = "1"]
               ELSE [cli EXCEPT !.pc = "embed2", !.vectorResults = vectorResults]
  /\ UNCHANGED <<http, clr, scr, spl, vectorStoreInstance, connectCalls, firstHandle, collection, run, qry>>

CliEmbed2Return ==
  /\ cli.pc = "embed2"
  /\ cli' = [cli EXCEPT !.pc = "search2"]
  /\ UNCHANGED <<http, clr, scr, spl, vectorStoreInstance, connectCalls, firstHandle, collection, run, qry>>

CliSearch2Return ==
  /\ cli.pc = "search2"
  /\ LET results == SimilaritySearch(collection, cli.topK)
     IN cli' = [cli EXCEPT !.pc = "generate", !.results = results,
                           !.messages = BuildMessages(UserQuery, results),
                           !.genCalls = @ + 1]
  /\ UNCHANGED <<http, clr, scr, spl, vectorStoreInstance, connectCalls, firstHandle, collection, run, qry>>

\* the answer is printed and main returns
CliGenerateReturn ==
  /\ cli.pc = "generate"
  /\ cli' = [cli EXCEPT !.pc = "done", !.answer = ModelAnswer, !.exitCode = "0"]
  /\ UNCHANGED <<http, clr, scr, spl, vectorStoreInstance, connectCalls, firstHandle, collection, run, qry>>

\* any awaited call rejects: the catch blocks of main call process.exit(1)
CliFail ==
  /\ cli.pc \in {"connect", "embed1", "search1", "embed2", "search2", "generate"}
  /\ cli' = [cli EXCEPT !.pc = "exited", !.error = "CallError", !.exitCode = "1"]
  /\ UNCHANGED <<http, clr, scr, spl, vectorStoreInstance, connectCalls, firstHandle, collection, run, qry>>

CliStep ==
  \/ CliStart
  \/ CliConnectReturn
  \/ CliEmbed1Return
  \/ CliSearch1Return
  \/ CliEmbed2Return
  \/ CliSearch2Return
  \/ CliGenerateReturn
  \/ CliFail

\* ---- properties ---------------------------------------------------------
IsPrefix(s, t) == Len(s) <= Len(t) /\ s = SubSeq(t, 1, Len(s))

InSeq(x, s) == \E k \in 1..Len(s) : s[k] = x

\* the records of the collection that come from the PDF of run r, in stored order
StoredOf(r) == SelectSeq(collection, LAMBDA d : d.metadata.source = r)

\* C1: processPDF starts its stages in the order load, chunk, embed, store; a
\* stage is started only when every stage before it has completed, and a
\* processPDF that returned has completed all four, in that order.
C1_StagesInStrictSequence ==
  \A r \in Runs :
    /\ IsPrefix(run[r].started, StageOrder)
    /\ IsPrefix(run[r].completed, StageOrder)
    /\ Len(run[r].completed) <= Len(run[r].started)
    /\ Len(run[r].started) <= Len(run[r].completed) + 1
    /\ run[r].pc = "done" => run[r].completed = StageOrder

C1_Witness ==
  \E r \in Runs : run[r].pc = "done" /\ run[r].n = MaxChunks /\ run[r].calls = MaxChunks

\* C2: when a stage of processPDF throws, processPDF ends there: the failing
\* stage is the last one started, no later stage completes, and the error
\* processPDF raises is the error the stage threw.
C2_AbortsAndPropagatesUnchanged ==
  \A r \in Runs :
    /\ run[r].thrown # NoError =>
         /\ run[r].pc = "failed"
         /\ run[r].error = run[r].thrown
         /\ Len(run[r].started) = Len(run[r].completed) + 1
         /\ run[r].thrown # "StoreError" => StoredOf(r) = <<>> /\ run[r].docs = <<>>
    /\ run[r].pc = "failed" <=> run[r].error # NoError
    /\ run[r].error # NoError => run[r].thrown # NoError

C2_Witness ==
  \E r \in Runs : run[r].pc = "failed" /\ run[r].thrown = "ChunkError"
                  /\ run[r].started = <<"load", "chunk">>

\* C3: concurrent first callers of initVectorStore establish the connection
\* once: connectToVectorDB is invoked at most once and every caller receives
\* the same store.
C3_ConnectsExactlyOnce ==
  /\ connectCalls <= 1
  /\ \A r \in Runs : run[r].handle # NoHandle => run[r].handle = firstHandle
  /\ \A q \in Queries : qry[q].handle # NoHandle => qry[q].handle = firstHandle

\* C4: once an initVectorStore call has completed, every call made later
\* returns the store that call returned and does not invoke connectToVectorDB.
C4_LaterCallsReturnSameHandle ==
  /\ \A r \in Runs :
       run[r].late => /\ run[r].conn = NoHandle
                      /\ run[r].handle = firstHandle
  /\ \A q \in Queries :
       qry[q].late => /\ qry[q].conn = NoHandle
                      /\ qry[q].handle = firstHandle

\* C5: when the embedding call for chunk i fails, createEmbeddings makes no
\* call for a later chunk, the error reaches the caller, and no list of
\* pairs (partial or patched with a default vector) is returned.
C5_EmbeddingFailureAbortsBatch ==
  \A r \in Runs :
    run[r].failedAt # 0 =>
      /\ run[r].calls = run[r].failedAt
      /\ run[r].pc = "failed"
      /\ run[r].error = "EmbedError"
      /\ ~InSeq("embed", run[r].completed)
      /\ run[r].embedded = <<>>
      /\ Len(run[r].embeddings) = run[r].failedAt - 1
      /\ \A k \in 1..Len(run[r].embeddings) :
           run[r].embeddings[k].embedding =
             EmbedVector(run[r].embeddings[k].chunk.pageContent)

C5_Witness ==
  \E r \in Runs : run[r].failedAt = 1 /\ run[r].n = MaxChunks /\ run[r].pc = "failed"


\* the state of createEmbeddings' loop: at its head, in a call, in the delay
InEmbeddingLoop(r) == run[r].pc \in {"embed", "embedCall", "embedDelay"}

CallsAndDelaysInTurn ==
  \A r \in Runs :
    /\ run[r].inFlight <= 1
    /\ run[r].inFlight = 1 <=> run[r].pc = "embedCall"
    /\ run[r].pc = "embedCall" =>
         /\ run[r].calls = run[r].i + 1
         /\ run[r].delays = run[r].i
         /\ Len(run[r].embeddings) = run[r].i
    /\ run[r].calls <= run[r].n
    /\ run[r].delays <= run[r].calls
    /\ InSeq("embed", run[r].completed) =>
         /\ run[r].calls = run[r].n
         /\ run[r].delays = (IF run[r].n = 0 THEN 0 ELSE run[r].n - 1)
         /\ Len(run[r].embedded) = run[r].n

\* C6: within one createEmbeddings run at most one embedding call is in
\* flight; the call for chunk i+1 starts only when the i calls before it have
\* returned and the i delays between them have elapsed; a run that returns
\* for N chunks has made exactly N calls and N-1 delays (none for N = 0, none
\* after the last chunk); and every run leaves the loop, its awaited calls
\* settling.
C6_SequentialCallsAndDelays ==
  /\ []CallsAndDelaysInTurn
  /\ \A r \in Runs : InEmbeddingLoop(r) ~> ~InEmbeddingLoop(r)

C6_Witness ==
  \E r \in Runs : /\ InSeq("embed", run[r].completed)
                  /\ run[r].n = MaxChunks
                  /\ run[r].delays = MaxChunks - 1

\* C7: in one ingestion run the chunks are embedded in the order the chunker
\* produced them, the records handed to the store are one per chunk in that
\* order, and they are stored in that order, whatever another run does in
\* between on the same collection.
C7_ChunkOrderPreserved ==
  \A r \in Runs :
    /\ Len(run[r].embeddings) <= Len(run[r].chunks)
    /\ \A k \in 1..Len(run[r].embeddings) :
         run[r].embeddings[k].chunk = run[r].chunks[k]
    /\ run[r].handle # NoHandle =>
         /\ Len(run[r].docs) = Len(run[r].chunks)
         /\ \A k \in 1..Len(run[r].docs) :
              /\ run[r].docs[k].pageContent = run[r].chunks[k].pageContent
              /\ run[r].docs[k].metadata = run[r].chunks[k].metadata
    /\ Len(StoredOf(r)) <= Len(run[r].chunks)
    /\ \A k \in 1..Len(StoredOf(r)) :
         StoredOf(r)[k].pageContent = run[r].chunks[k].pageContent
    /\ run[r].pc = "done" => Len(StoredOf(r)) = Len(run[r].chunks)

\* two runs in flight at once, each with several chunks, one of them stored
C7_Witness ==
  \E r1, r2 \in Runs :
    /\ r1 # r2
    /\ run[r1].pc = "done" /\ run[r1].n = MaxChunks /\ MaxChunks >= 2
    /\ run[r2].pc = "add" /\ run[r2].n = MaxChunks
    /\ Len(collection) = MaxChunks

\* C8 as claimed: a storeEmbeddings call is all-or-nothing for its caller:
\* when it has returned every record of the batch is in the collection, when
\* it has failed none is, and a failure is surfaced as an error.
C8_StoreAllOrNothing ==
  \A r \in Runs :
    /\ run[r].pc = "done" => StoredOf(r) = run[r].docs
    /\ run[r].thrown \in {"StoreError", "ConnectError"} =>
         /\ run[r].pc = "failed"
         /\ run[r].error = run[r].thrown
    /\ Len(StoredOf(r)) \in {0, Len(run[r].docs)}

\* C8 as amended: storeEmbeddings reports success only when every record of
\* the batch is in the collection, in one addDocuments call; every failure of
\* the store, one that left a part of the batch written included, reaches the
\* caller as the store's error and is never reported as success; a part of a
\* batch is in the collection only after such a surfaced failure.
C8_SuccessIsWholeBatchFailureIsSurfaced ==
  \A r \in Runs :
    /\ run[r].pc = "done" => StoredOf(r) = run[r].docs
    /\ InSeq("store", run[r].completed) <=> run[r].pc = "done"
    /\ run[r].thrown \in {"StoreError", "ConnectError"} =>
         /\ run[r].pc = "failed"
         /\ run[r].error = run[r].thrown
    /\ run[r].thrown = "ConnectError" => StoredOf(r) = <<>>
    /\ IsPrefix(StoredOf(r), run[r].docs)
    /\ (StoredOf(r) # run[r].docs) =>
         /\ run[r].pc \in {"add", "failed"}
         /\ run[r].pc = "failed" => run[r].error = "StoreError"

\* the store failed after writing a part of the batch, and the caller was told
C8_Witness ==
  \E r \in Runs : /\ run[r].thrown = "StoreError"
                  /\ run[r].pc = "failed"
                  /\ Len(run[r].docs) = MaxChunks
                  /\ Len(StoredOf(r)) > 0
                  /\ Len(StoredOf(r)) < MaxChunks

\* C9: a query whose search returns no result is not an error: unless an
\* external call fails, the request raises nothing and does not exit with a
\* failure code, generation is invoked once, and the result is the empty
\* result list with the generated answer.
C9_EmptyResultsAreNotAnError ==
  /\ \A q \in Queries :
       (qry[q].pc \in {"generate", "done"} /\ qry[q].results = <<>>) =>
         /\ qry[q].genCalls = 1
         /\ qry[q].error = NoError
         /\ qry[q].pc = "done" => qry[q].returned /\ qry[q].answer = ModelAnswer
  /\ (/\ cli.pc \notin {"idle", "connect", "embed1", "search1"}
      /\ cli.vectorResults = <<>>
      /\ cli.error = NoError) =>
         /\ cli.exitCode # "1"
         /\ cli.genCalls = 1

\* C10: when the retrieved results are empty, the messages sent to the chat
\* model contain a statement that no context was found.
C10_EmptyResultsPromptSaysNoContext ==
  /\ \A q \in Queries :
       (qry[q].genCalls = 1 /\ qry[q].results = <<>>) =>
         \E k \in 1..Len(qry[q].messages.human) :
           qry[q].messages.human[k].kind = "noContextStatement"
  /\ (cli.genCalls = 1 /\ cli.results = <<>>) =>
         \E k \in 1..Len(cli.messages.human) :
           cli.messages.human[k].kind = "noContextStatement"

\* C11: when chunkSize <= 0 or chunkOverlap >= chunkSize, the chunk stage fails
\* with the splitter's configuration error, no chunk is produced, and processPDF
\* makes no embedding call and no upsert.
C11_MisconfigurationRejected ==
  \A r \in Runs :
    (/\ InSeq("chunk", run[r].started)
     /\ \/ run[r].opts.chunkSize <= 0
        \/ run[r].opts.chunkOverlap >= run[r].opts.chunkSize) =>
      /\ run[r].pc = "failed"
      /\ run[r].error = "SplitterError"
      /\ run[r].splits = 0
      /\ run[r].chunks = <<>>
      /\ run[r].calls = 0
      /\ run[r].adds = 0
      /\ StoredOf(r) = <<>>

\* C12: for every config, the vectors of the records processPDF stores and the
\* query vector of queryKnowledgeBase are computed by the same embedding model,
\* the config's embeddingModel.
C12_StoredAndQueryVectorsSameModel ==
  \A r \in Runs, q \in Queries :
    (/\ run[r].docs # <<>>
     /\ qry[q].embeds > 0
     /\ run[r].opts.embeddingModel = qry[q].opts.embeddingModel) =>
      /\ ModelId(run[r].storeWith.model) = ModelId(run[r].opts.embeddingModel)
      /\ ModelId(qry[q].embedWith.model) = ModelId(qry[q].opts.embeddingModel)
      /\ ModelId(run[r].storeWith.model) = ModelId(qry[q].embedWith.model)

\* the credentials the calls of a request to the embedding and chat services
\* were made with
RunCredentials(r) ==
  {run[r].embedWith.apiKey : k \in 1..Min(run[r].calls, 1)}
  \cup {run[r].storeWith.apiKey : k \in 1..Min(Len(run[r].docs), 1)}

QueryCredentials(q) ==
  {qry[q].embedWith.apiKey : k \in 1..Min(qry[q].embeds, 1)}
  \cup {qry[q].chatWith.apiKey : k \in 1..Min(qry[q].genCalls, 1)}

\* C13: every external call of a request is made with the apiKey and the model
\* names of the config the request was called with, none with a credential or a
\* model name a stage took from elsewhere (the process environment, a literal);
\* two requests whose configs differ in apiKey use no credential in common.
C13_ConfigurationOnlyThroughConfig ==
  /\ \A r \in Runs :
       /\ RunCredentials(r) \subseteq {run[r].config.apiKey}
       /\ run[r].calls > 0 =>
            run[r].embedWith.model = ProcessPDFOptions(run[r].config).embeddingModel
       /\ run[r].docs # <<>> =>
            ModelId(run[r].storeWith.model) =
              ModelId(ProcessPDFOptions(run[r].config).embeddingModel)
  /\ \A q \in Queries :
       /\ QueryCredentials(q) \subseteq {qry[q].config.apiKey}
       /\ qry[q].embeds > 0 =>
            qry[q].embedWith.model = QueryOptions(qry[q].config).embeddingModel
       /\ qry[q].genCalls > 0 =>
            qry[q].chatWith.model = QueryOptions(qry[q].config).chatModel
  /\ \A r \in Runs, q \in Queries :
       run[r].config.apiKey # qry[q].config.apiKey =>
         RunCredentials(r) \cap QueryCredentials(q) = {}

\* C14: a query called with topK <= 0 is rejected: no search is sent to the
\* vector store, generation is not invoked, and no result is returned.
C14_NonPositiveTopKRejected ==
  \A q \in Queries :
    (qry[q].pc # "idle" /\ qry[q].topK <= 0) =>
      /\ qry[q].searches = 0
      /\ qry[q].genCalls = 0
      /\ ~qry[q].returned

\* what a returned query with topK > 0 hands to its caller
ReturnedResultsAreTheStoresRanking ==
  \A q \in Queries :
    (qry[q].returned /\ qry[q].topK > 0) =>
      /\ qry[q].value.results = qry[q].results
      /\ qry[q].value.answer = ModelAnswer
      /\ Len(qry[q].value.results) <= qry[q].topK
      /\ \A i, j \in 1..Len(qry[q].value.results) :
           i < j => qry[q].value.results[i].score >= qry[q].value.results[j].score
      /\ \A i \in 1..Len(qry[q].value.results) :
           InSeq(qry[q].value.results[i].doc, collection)

\* what the search of a query with topK > 0 takes from the store
SearchTakesAllUpToTopK ==
  \A q \in Queries :
    (qry[q].pc = "search" /\ qry'[q].pc = "generate" /\ qry[q].topK > 0) =>
      /\ Len(collection) < qry[q].topK => Len(qry'[q].results) = Len(collection)
      /\ Len(collection) >= qry[q].topK => Len(qry'[q].results) = qry[q].topK

\* C15: a query with topK > 0 that succeeds returns the store's ranked results
\* as the store gave them: best score first, at most topK of them, and all the
\* records of the collection when it holds fewer than topK.
C15_ResultsAreStoreRankingUnmodified ==
  /\ []ReturnedResultsAreTheStoresRanking
  /\ [][SearchTakesAllUpToTopK]_vars

C15_Witness ==
  \E q \in Queries : /\ qry[q].returned
                      /\ qry[q].topK = MaxTopK
                      /\ MaxTopK >= 2
                      /\ Len(qry[q].value.results) = MaxTopK

\* a request that was called has returned or raised
RunEnded(r) == run[r].pc \in {"done", "failed"}

QueryEnded(q) == qry[q].pc \in {"done", "failed"}

\* C16: every processPDF and queryKnowledgeBase request comes to an end, by
\* returning or by failing, also when an external call never responds.
C16_EveryRequestEnds ==
  /\ \A r \in Runs : (run[r].pc # "idle") ~> RunEnded(r)
  /\ \A q \in Queries : (qry[q].pc # "idle") ~> QueryEnded(q)

\* the external calls a request has issued so far
NoCallIssuedTwice ==
  /\ \A r \in Runs :
       /\ run[r].loads <= 1
       /\ run[r].splits <= 1
       /\ run[r].adds <= 1
       /\ run[r].calls <= Len(run[r].chunks)
       /\ run[r].calls =
            run[r].i + (IF \/ run[r].pc \in {"embedCall", "embedDelay"}
                           \/ run[r].failedAt # 0
                        THEN 1 ELSE 0)
       /\ run[r].failedAt # 0 => run[r].calls = run[r].failedAt
  /\ \A q \in Queries :
       /\ qry[q].embeds <= 1
       /\ qry[q].searches <= 1
       /\ qry[q].genCalls <= 1

\* a request that has failed does nothing more
FailureIsFinal ==
  /\ \A r \in Runs : run[r].pc = "failed" => run'[r] = run[r]
  /\ \A q \in Queries : qry[q].pc = "failed" => qry'[q] = qry[q]

\* C17: within one request each external call is issued at most once per item
\* (one load, one split, one diagnostic embedding call per chunk, one upsert,
\* one query embedding, one search, one generation), and a request whose call
\* failed issues no call any more.
C17_NoAutomaticRetry ==
  /\ []NoCallIssuedTwice
  /\ [][FailureIsFinal]_vars

\* a request failed in its search, having sent it once, and one in an embedding
\* call, having made it once
C17_Witness ==
  /\ \E q \in Queries : /\ qry[q].pc = "failed"
                         /\ qry[q].error = "SearchError"
                         /\ qry[q].searches = 1
  /\ \E r \in Runs : /\ run[r].pc = "failed"
                      /\ run[r].failedAt = MaxChunks
                      /\ run[r].calls = MaxChunks

\* C18: a query takes its steps in the order connect, embed query, search,
\* generate, each started when the one before has completed; a query that
\* failed in any step hands its caller no answer and no results; generation
\* is not invoked after a failed connection, query embedding or search; and a
\* {results, answer} value is returned only when all four steps succeeded.
C18_QueryFailureYieldsNothing ==
  \A q \in Queries :
    /\ IsPrefix(qry[q].started, QueryStageOrder)
    /\ IsPrefix(qry[q].completed, QueryStageOrder)
    /\ Len(qry[q].completed) <= Len(qry[q].started)
    /\ Len(qry[q].started) <= Len(qry[q].completed) + 1
    /\ qry[q].genCalls > 0 => InSeq("search", qry[q].completed)
    /\ qry[q].pc = "failed" <=> qry[q].error # NoError
    /\ qry[q].pc = "failed" =>
         /\ ~qry[q].returned
         /\ qry[q].value = ReturnValue(<<>>, Null)
         /\ qry[q].answer = Null
         /\ Len(qry[q].started) = Len(qry[q].completed) + 1
    /\ qry[q].error \in {"ConnectError", "QueryEmbedError", "SearchError"} =>
         qry[q].genCalls = 0
    /\ qry[q].returned =>
         /\ qry[q].pc = "done"
         /\ qry[q].completed = QueryStageOrder
         /\ qry[q].value = ReturnValue(qry[q].results, ModelAnswer)

\* generation failed after the search had found records: nothing is returned
C18_Witness ==
  \E q \in Queries : /\ qry[q].pc = "failed"
                      /\ qry[q].error = "GenerateError"
                      /\ Len(qry[q].results) = MaxTopK
                      /\ ~qry[q].returned

\* C19: for every document and every valid chunk size and overlap
\* (0 <= chunkOverlap < chunkSize), every chunk chunkDocuments returns has at
\* most chunkSize characters.
C19_ChunkSizeBound ==
  spl.pc = "returned" =>
    \A k \in 1..Len(spl.chunks) : Len(spl.chunks[k].pageContent) <= spl.chunkSize

\* a page longer than the chunk size came back in several chunks, one of them
\* of exactly the chunk size, made of more than one piece
C19_Witness ==
  /\ spl.pc = "returned"
  /\ spl.chunkSize >= 2
  /\ Len(spl.chunks) >= 2
  /\ \E k \in 1..Len(spl.chunks) : Len(spl.chunks[k].pageContent) = spl.chunkSize
  /\ Len(spl.documents[1].pageContent) > spl.chunkSize

\* chunk1.substring(chunk1.length - j)
LastChars(text, j) == SubSeq(text, Len(text) - Min(j, Len(text)) + 1, Len(text))

\* chunk2.substring(0, j)
FirstChars(text, j) == SubSeq(text, 1, Min(j, Len(text)))

\* C20: of two adjacent chunks chunkDocuments produces from the same page, the
\* later begins with the last chunkOverlap characters of the earlier.
C20_OverlapInvariant ==
  spl.pc = "returned" =>
    \A k \in 1..(Len(spl.chunks) - 1) :
      spl.chunks[k].metadata.page = spl.chunks[k + 1].metadata.page =>
        LastChars(spl.chunks[k].pageContent, spl.chunkOverlap)
          = FirstChars(spl.chunks[k + 1].pageContent, spl.chunkOverlap)

C22_DefaultsAndPassThrough ==
  /\ \A r \in Runs :
       LET config == run[r].config
           chunkSize == IF "chunkSize" \in DOMAIN config THEN config.chunkSize ELSE 500
           chunkOverlap == IF "chunkOverlap" \in DOMAIN config
                           THEN config.chunkOverlap ELSE 75
           embeddingModel == IF "embeddingModel" \in DOMAIN config
                             THEN config.embeddingModel ELSE <<"text-embedding-004">>
       IN /\ run[r].splitWith.constructed =>
               /\ run[r].splitWith.chunkSize = chunkSize
               /\ run[r].splitWith.chunkOverlap = chunkOverlap
          /\ run[r].splits > 0 => run[r].splitWith.constructed
          /\ run[r].calls > 0 => run[r].embedWith.model = embeddingModel
  /\ \A q \in Queries :
       LET config == qry[q].config
           embeddingModel == IF "embeddingModel" \in DOMAIN config
                             THEN config.embeddingModel ELSE <<"text-embedding-004">>
           chatModel == IF "chatModel" \in DOMAIN config
                        THEN config.chatModel ELSE <<"gemini-1.5-flash">>
           topK == IF "topK" \in DOMAIN qry[q].args THEN qry[q].args.topK ELSE 3
       IN /\ qry[q].embeds > 0 => qry[q].embedWith.model = embeddingModel
          /\ qry[q].searches > 0 => qry[q].topK = topK
          /\ qry[q].genCalls > 0 => qry[q].chatWith.model = chatModel

\* a query called with another chat model and no topK was answered, next to
\* an ingestion called with a chunk size and an overlap of 0 of its caller's
C22_Witness ==
  /\ \E q \in Queries : /\ qry[q].pc = "done"
                         /\ qry[q].config \in ChatConfigs
                         /\ qry[q].args = QueryArgsNoTopK
                         /\ qry[q].chatWith.model = OtherChatModel
  /\ \E r \in Runs : /\ run[r].splits > 0
                      /\ "chunkOverlap" \in DOMAIN run[r].config
                      /\ run[r].config.chunkOverlap = 0
                      /\ run[r].config.chunkSize > 0

\* a run that failed before its store stage has written nothing and has issued
\* no upsert; an upsert is issued only for chunks that were all embedded
NothingStoredBeforeStoreStage ==
  \A r \in Runs :
    /\ run[r].thrown \in {"LoadError", "SplitterError", "ChunkError", "EmbedError"} =>
         /\ run[r].pc = "failed"
         /\ run[r].adds = 0
         /\ run[r].handle = NoHandle
         /\ StoredOf(r) = <<>>
    /\ run[r].adds > 0 =>
         /\ InSeq("embed", run[r].completed)
         /\ run[r].calls = Len(run[r].chunks)
         /\ Len(run[r].embedded) = Len(run[r].chunks)
         /\ run[r].failedAt = 0

\* a step of a run outside its addDocuments call leaves the collection as it is
OnlyUpsertWrites ==
  \A r \in Runs :
    (run'[r] # run[r] /\ run[r].pc # "add") => collection' = collection

\* C23: when processPDF fails in its load, chunk or diagnostic embedding stage
\* the collection is as it was, with no record of that PDF: the upsert is issued
\* only after every chunk was embedded.
C23_FailureBeforeStoreWritesNothing ==
  /\ []NothingStoredBeforeStoreStage
  /\ [][OnlyUpsertWrites]_vars

\* the last of several embedding calls failed, with another run's records in
\* the collection
C23_Witness ==
  \E r, o \in Runs :
    /\ r # o
    /\ run[r].thrown = "EmbedError"
    /\ run[r].failedAt = MaxChunks
    /\ MaxChunks >= 2
    /\ Len(run[r].embeddings) = MaxChunks - 1
    /\ run[o].pc = "done"
    /\ Len(collection) > 0

\* a failed connection attempt reaches its caller as the connection's error
\* and is never the singleton; the singleton is set only once an attempt succeeded
FailedConnectionNeverCached ==
  /\ \A r \in Runs :
       run[r].thrown = "ConnectError" =>
         /\ run[r].pc = "failed"
         /\ run[r].error = "ConnectError"
         /\ run[r].handle = NoHandle
         /\ run[r].conn # NoHandle
         /\ vectorStoreInstance # run[r].conn
  /\ firstHandle = NoHandle => vectorStoreInstance = NoHandle

\* the step in which an attempt fails leaves the singleton as it is
ConnectFailureLeavesSingleton ==
  \A r \in Runs :
    (run[r].pc = "connect" /\ run'[r].pc = "failed") =>
      vectorStoreInstance' = vectorStoreInstance

\* an initVectorStore call that finds the singleton unset calls connectToVectorDB
UnsetSingletonConnectsAgain ==
  \A r \in Runs :
    (run[r].pc = "store" /\ run'[r].pc # "store" /\ vectorStoreInstance = NoHandle) =>
      /\ run'[r].pc = "connect"
      /\ connectCalls' = connectCalls + 1
      /\ run'[r].conn = connectCalls + 1

\* C24: when connectToVectorDB fails inside initVectorStore the error reaches
\* the caller, vectorStoreInstance is left unset (no failure is cached as a
\* handle), and the next initVectorStore call attempts the connection again.
C24_FailedConnectionLeavesSingletonUnset ==
  /\ []FailedConnectionNeverCached
  /\ [][ConnectFailureLeavesSingleton]_vars
  /\ [][UnsetSingletonConnectsAgain]_vars

\* one run's connection failed, the singleton stayed unset, and the other run
\* found it unset, connected anew and stored its chunks
C24_Witness ==
  \E r, o \in Runs :
    /\ run[r].thrown = "ConnectError"
    /\ run[o].pc = "done"
    /\ run[o].conn > run[r].conn
    /\ run[o].handle = run[o].conn
    /\ vectorStoreInstance = run[o].conn
    /\ firstHandle = run[o].conn

\* the collection keeps every record it has, in its place
CollectionOnlyGrows == IsPrefix(collection, collection')

\* the metadata storeEmbeddings stores with a chunk
StoredMetadata(chunk) ==
  IF "metadata" \in DOMAIN chunk THEN chunk.metadata ELSE EmptyMetadata

\* a storeEmbeddings call that succeeds adds one record per chunk, with the
\* chunk's text and metadata, in the chunks' order
SuccessfulStoreAddsOnePerChunk ==
  \A r \in Runs :
    (run[r].pc = "add" /\ run'[r].pc = "done") =>
      /\ Len(collection') = Len(collection) + Len(run[r].chunks)
      /\ \A k \in 1..Len(run[r].chunks) :
           /\ collection'[Len(collection) + k].pageContent = run[r].chunks[k].pageContent
           /\ collection'[Len(collection) + k].metadata = StoredMetadata(run[r].chunks[k])

\* the number of records of the collection equal to a record
Copies(doc) == Cardinality({i \in 1..Len(collection) : collection[i] = doc})

\* two processPDF runs on the same file that both succeeded: the file's
\* records are in the collection twice
ReingestedRecordsStoredTwice ==
  \A r, o \in Runs :
    (/\ r # o
     /\ run[r].pc = "done" /\ run[o].pc = "done"
     /\ run[r].file = SamePdf /\ run[o].file = SamePdf) =>
      /\ run[r].chunks = run[o].chunks
      /\ Len(collection) = 2 * Len(run[r].chunks)
      /\ \A k \in 1..Len(run[r].chunks) :
           Copies([pageContent |-> run[r].chunks[k].pageContent,
                   metadata |-> run[r].chunks[k].metadata]) = 2

\* C25: the collection only grows: storeEmbeddings adds one record per chunk
\* with the chunk's text and metadata (an empty map when the chunk has none)
\* and replaces or deletes none; a successful processPDF run with N chunks adds
\* N records, and a PDF ingested twice has its records stored twice.
C25_CollectionOnlyGrows ==
  /\ [][CollectionOnlyGrows]_vars
  /\ [][SuccessfulStoreAddsOnePerChunk]_vars
  /\ []ReingestedRecordsStoredTwice

\* the same PDF was ingested twice, with several chunks
C25_Witness ==
  \E r, o \in Runs :
    /\ r # o
    /\ run[r].pc = "done" /\ run[o].pc = "done"
    /\ run[r].file = SamePdf /\ run[o].file = SamePdf
    /\ Len(run[r].chunks) = MaxChunks
    /\ Len(collection) = 2 * MaxChunks

\* a step of clearVectorStore leaves the records, and with them the result of
\* every search, as they are; what it changes is the connection, which it
\* starts only when it finds none
ClearTouchesOnlyConnection ==
  clr' # clr =>
    /\ collection' = collection
    /\ \A k \in 1..MaxTopK :
         SimilaritySearch(collection', k) = SimilaritySearch(collection, k)
    /\ run' = run /\ qry' = qry
    /\ connectCalls' # connectCalls =>
         /\ vectorStoreInstance = NoHandle
         /\ clr.pc = "idle"
    /\ vectorStoreInstance' # vectorStoreInstance =>
         /\ clr.pc = "connect"
         /\ vectorStoreInstance' = clr.conn

\* a clearVectorStore call that returned leaves a connection behind, and one
\* that found a connection made none
ClearReturnedWithConnection ==
  /\ clr.pc = "done" => vectorStoreInstance # NoHandle /\ clr.handle # NoHandle
  /\ (clr.pc # "idle" /\ clr.conn = NoHandle) => clr.handle # NoHandle

\* C26: clearVectorStore removes nothing: the stored records and the results
\* of a search are after it what they were before; all it does is to establish
\* the connection when there is none.
C26_ClearRemovesNothing ==
  /\ [][ClearTouchesOnlyConnection]_vars
  /\ []ClearReturnedWithConnection

\* clearVectorStore was called with records in the collection and returned:
\* they are all there
C26_Witness ==
  /\ clr.pc = "done"
  /\ Len(clr.seen) = MaxChunks
  /\ collection = clr.seen

\* C27: a chunk size and an overlap the caller gives explicitly, valid
\* together (0 <= chunkOverlap < chunkSize), are the values the splitter is
\* run with, an overlap of 0 included, through processPDF and through the
\* command line of the pipeline scripts.
C27_ExplicitChunkingValuesPropagated ==
  /\ \A r \in Runs :
       (/\ run[r].splits > 0
        /\ "chunkSize" \in DOMAIN run[r].config
        /\ "chunkOverlap" \in DOMAIN run[r].config) =>
         run[r].splitWith = Splitter(run[r].config.chunkSize, run[r].config.chunkOverlap)
  /\ LET size == ParseInt(ArgvAt(scr.argv, 3))
         overlap == ParseInt(ArgvAt(scr.argv, 4))
     IN (/\ scr.pc \in {"chunk", "chunked"}
         /\ ~size.nan /\ ~overlap.nan
         /\ 0 <= overlap.value /\ overlap.value < size.value) =>
          scr.splitWith = Splitter(size.value, overlap.value)

\* C28: the prompt has one context entry per retrieved result, in result
\* order, numbered from 1; a chunk of at most 500 characters is in it in full,
\* without ellipsis, a longer chunk as its first 500 characters followed by
\* the ellipsis.
C28_ContextPreviewTruncation ==
  \A q \in Queries :
    qry[q].genCalls > 0 =>
      LET entries == qry[q].messages.human[4].entries
      IN /\ qry[q].messages.human[4].kind = "context"
         /\ Len(entries) = Len(qry[q].results)
         /\ \A i \in 1..Len(entries) :
              LET text == qry[q].results[i].doc.pageContent
              IN /\ entries[i].number = i
                 /\ entries[i].text.len <= 500
                 /\ text.len <= 500 =>
                      /\ entries[i].text = text
                      /\ ~entries[i].ellipsis
                 /\ text.len > 500 =>
                      /\ entries[i].text = [id |-> text.id, len |-> 500]
                      /\ entries[i].ellipsis

\* a prompt with a chunk of exactly 500 characters and one of more
C28_Witness ==
  \E q \in Queries :
    /\ qry[q].genCalls > 0
    /\ Len(qry[q].results) = 2
    /\ qry[q].results[1].doc.pageContent.len = 500
    /\ qry[q].results[2].doc.pageContent.len > 500
    /\ qry[q].messages.human[4].entries[2].ellipsis

\* a body whose query is missing, empty or not a string
InvalidQueryBody(body) ==
  \/ "query" \notin DOMAIN body
  \/ body.query.type # "string"
  \/ body.query.text = ""

\* what has been answered to a POST /query request so far
QueryRequestAnswered ==
  \A q \in Queries :
    LET h == http[q]
    IN /\ Len(h.responses) <= 1
       /\ h.pc = "responded" <=> Len(h.responses) = 1
       /\ h.invoked <= 1
       /\ h.invoked = 0 => qry[q].pc = "idle"
       /\ (h.pc # "idle" /\ InvalidQueryBody(h.req)) =>
            /\ h.invoked = 0
            /\ h.responses = <<Response(400, FALSE)>>
       /\ (h.pc # "idle" /\ ~InvalidQueryBody(h.req)) =>
            /\ h.invoked = 1
            /\ qry[q].pc # "idle"
       /\ \A i \in 1..Len(h.responses) :
            /\ h.responses[i].success =>
                 /\ h.responses[i].status = 200
                 /\ qry[q].pc = "done"
                 /\ qry[q].returned
            /\ qry[q].pc = "failed" => h.responses[i] = Response(500, FALSE)
            /\ h.responses[i].status = 500 => qry[q].pc = "failed"

\* C29: POST /query answers a missing, empty or non-string query with 400 and
\* does not call queryKnowledgeBase for it; a request gets one response and
\* never a second, a success response only when queryKnowledgeBase returned,
\* a 500 failure response when it raised.
C29_QueryRequestAnswered ==
  /\ []QueryRequestAnswered
  /\ \A q \in Queries :
       (http[q].pc # "idle" /\ (qry[q].pc = "idle" \/ QueryEnded(q)))
         ~> (Len(http[q].responses) = 1)

\* a query that failed in generation was answered with 500
C29_Witness ==
  \E q \in Queries :
    /\ http[q].responses = <<Response(500, FALSE)>>
    /\ http[q].invoked = 1
    /\ qry[q].error = "GenerateError"

\* what has been answered to a POST /upload-pdf request so far
UploadRequestAnswered ==
  \A r \in Runs :
    LET h == http[r]
    IN /\ Len(h.responses) <= 1
       /\ h.pc = "responded" <=> Len(h.responses) = 1
       /\ h.invoked <= 1
       /\ h.invoked = 0 => run[r].pc = "idle"
       /\ (h.pc # "idle" /\ h.req.file # "pdf") =>
            /\ h.invoked = 0
            /\ ~h.responses[1].success
            /\ h.req.file = "none" => h.responses = <<Response(400, FALSE)>>
       /\ (h.pc # "idle" /\ h.req.file = "pdf") => h.invoked = 1
       /\ \A i \in 1..Len(h.responses) :
            /\ h.responses[i].success =>
                 /\ h.responses[i].status = 200
                 /\ run[r].pc = "done"
                 /\ run[r].completed = StageOrder
                 /\ run[r].adds = 1
                 /\ StoredOf(r) = run[r].docs
                 /\ Len(StoredOf(r)) = Len(run[r].chunks)
            /\ run[r].pc = "failed" => h.responses[i] = Response(500, FALSE)

\* C30: POST /upload-pdf answers success only when processPDF has completed
\* all its stages for the uploaded file, the upsert included; a request
\* without a file gets 400 and no processPDF call, a processPDF failure a 500
\* response with success false.
C30_UploadAnsweredAfterIngestion ==
  /\ []UploadRequestAnswered
  /\ \A r \in Runs :
       (http[r].pc # "idle" /\ (run[r].pc = "idle" \/ RunEnded(r)))
         ~> (Len(http[r].responses) = 1)

\* an upload of several chunks was answered with success, its records stored
C30_Witness ==
  \E r \in Runs :
    /\ http[r].responses = <<Response(200, TRUE)>>
    /\ Len(run[r].chunks) = MaxChunks
    /\ Len(StoredOf(r)) = MaxChunks

\* the server process: concurrent uploads and queries
Next ==
  \/ \E r \in Runs : RunStep(r)
  \/ \E q \in Queries : QueryStep(q)

Spec == Init /\ [][Next]_vars

\* the step5-query script next to one ingestion that fills the collection
NextCli ==
  \/ RunStep("r1")
  \/ CliStep

SpecCli == Init /\ [][NextCli]_vars

\* concurrent ingestions alone (SpecIngest); in SpecIngestFair the event loop
\* resumes every continuation whose awaited promise has settled, the timer
\* fires, and every awaited external call is taken to settle (resolve or reject)
NextIngest == \E r \in Runs : RunStep(r)

SpecIngest == Init /\ [][NextIngest]_vars

SpecIngestFair == Init /\ [][NextIngest]_vars /\ \A r \in Runs : WF_vars(RunStep(r))

\* the steps of an ingestion that wait for no response from outside the
\* process: the loop going on to its next call, the timer, the call of the
\* store stage
ProgramStep(r) ==
  \/ EmbedCall(r)
  \/ DelayElapsed(r)
  \/ EmbeddingsReturn(r)
  \/ StoreInit(r)

\* one upload and one query of the server; the process takes its own steps,
\* while a response to an awaited external call (PDF parse, embedding, vector
\* store, generation) may come or never come: the code sets no timeout on any
NextRequests ==
  \/ RunStep("r1")
  \/ QueryStep("q1")

SpecRequestsFair == Init /\ [][NextRequests]_vars /\ WF_vars(ProgramStep("r1"))

\* the steps of an ingestion once it is called
RunContinue(r) ==
  \/ LoadReturn(r)
  \/ LoadFail(r)
  \/ ChunkReturn(r)
  \/ ChunkFail(r)
  \/ EmbedCall(r)
  \/ EmbedReturn(r)
  \/ DelayElapsed(r)
  \/ EmbedFail(r)
  \/ EmbeddingsReturn(r)
  \/ StoreInit(r)
  \/ RunConnectReturn(r)
  \/ RunConnectFail(r)
  \/ AddReturn(r)
  \/ AddFail(r)

\* chunkDocuments is called on the pages of a PDF with a chunk size and an
\* overlap the splitter's constructor accepts, 0 <= chunkOverlap < chunkSize
InitChunker ==
  /\ vectorStoreInstance = NoHandle
  /\ connectCalls = 0
  /\ firstHandle = NoHandle
  /\ collection = <<>>
  /\ run = [r \in Runs |-> InitRun]
  /\ qry = [q \in Queries |-> InitQry]
  /\ cli = InitCli
  /\ http = [id \in Runs \cup Queries |-> NoRequest]
  /\ clr = NoClear
  /\ scr = NoScript
  /\ \E documents \in LoadedDocuments(MaxTextLen), chunkSize \in 1..MaxChunkSize :
       \E chunkOverlap \in 0..(chunkSize - 1) :
         /\ ~SplitterRejects(chunkSize, chunkOverlap)
         /\ spl = [pc |-> "split", documents |-> documents, chunkSize |-> chunkSize,
                   chunkOverlap |-> chunkOverlap, chunks |-> <<>>, again |-> <<>>]

\* textSplitter.splitDocuments(documents) resolves; chunkDocuments returns the chunks
ChunkDocumentsReturn ==
  /\ spl.pc = "split"
  /\ spl' = [spl EXCEPT !.pc = "returned",
                        !.chunks = ChunkDocuments(spl.documents, spl.chunkSize,
                                                  spl.chunkOverlap)]
  /\ UNCHANGED <<http, clr, scr, vectorStoreInstance, connectCalls, firstHandle, collection,
                 run, qry, cli>>

\* processPDF is run a second time on the same file with the same config:
\* loadPDF hands over the same pages, chunkDocuments constructs a splitter of
\* its own with the same chunk size and overlap and returns its chunks
ChunkDocumentsAgain ==
  /\ spl.pc = "returned"
  /\ spl' = [spl EXCEPT !.pc = "rerun",
                        !.again = ChunkDocuments(spl.documents, spl.chunkSize,
                                                 spl.chunkOverlap)]
  /\ UNCHANGED <<http, clr, scr, vectorStoreInstance, connectCalls, firstHandle, collection,
                 run, qry, cli>>

NextChunker ==
  \/ ChunkDocumentsReturn
  \/ ChunkDocumentsAgain

SpecChunker == InitChunker /\ [][NextChunker]_vars

\* a pipeline script run from the command line, and a caller of processPDF
\* with a config of its own
NextScript ==
  \/ ScriptStep
  \/ CallProcessPDF("r1")
  \/ RunContinue("r1")

SpecScript == Init /\ [][NextScript]_vars

\* one POST /upload-pdf and one POST /query request of the server; the event
\* loop resumes a handler whose awaited orchestrator call has settled
NextServer ==
  \/ PostUploadPdf("r1")
  \/ RunContinue("r1")
  \/ UploadRespond("r1")
  \/ PostQuery("q1")
  \/ QueryContinue("q1")
  \/ QueryRespond("q1")

SpecServer ==
  /\ Init
  /\ [][NextServer]_vars
  /\ WF_vars(UploadRespond("r1"))
  /\ WF_vars(QueryRespond("q1"))

\* one ingestion and one clearVectorStore call in the server process
NextClear ==
  \/ RunStep("r1")
  \/ ClearStep

SpecClear == Init /\ [][NextClear]_vars

\* callers that ingest the same PDF file, at once or one after the other, and
\* callers of storeEmbeddings with documents of their own
NextStore ==
  \E r \in Runs :
    \/ ReingestProcessPDF(r)
    \/ CallStoreEmbeddings(r)
    \/ RunContinue(r)

SpecStore == Init /\ [][NextStore]_vars

\* the orchestrator's exports called directly (as test.ts does), one ingestion
\* and one query, each with the caller's config
NextApi ==
  \/ CallProcessPDF("r1")
  \/ RunContinue("r1")
  \/ CallQueryKnowledgeBase("q1")
  \/ QueryContinue("q1")

SpecApi == Init /\ [][NextApi]_vars

====
